---- MODULE Spec2Model ----
(***************************************************************************)
(* Model of the broadcast-field extraction pipeline of the ai-processor    *)
(* service: the rule engine FGBParser, the supplier parser LitterazyParser,*)
(* the generative fallback AIParser and the /parse request handler.        *)
(*                                                                         *)
(* Text is a sequence of characters (one-element strings).  Python values  *)
(* are tagged records, so that None, str, int, list and dict stay apart.   *)
(* A call either returns a value or raises: Ret(v) / Raise(exc).           *)
(***************************************************************************)
EXTENDS Integers, Sequences, FiniteSets, TLC

\* ------------------------------------------------------------------------
\* Characters
\* ------------------------------------------------------------------------
NL == "NL"
SP == " "
\* the seven flower glyphs of HEADER_PATTERN's emoji class
CherryBlossom == "U+1F338"
Hibiscus == "U+1F33A"
Tulip == "U+1F337"
Rose == "U+1F339"
Bouquet == "U+1F490"
Sunflower == "U+1F33B"
BlossomGlyph == "U+1F33C"
\* the two separator glyphs and the price label (two code points) of the FGB layout
TreeGlyph == "U+1F333"
FoxGlyph == "U+1F98A"
LabelGlyph == "U+1F3F7"
VariationSelector == "U+FE0F"

Digits == {"0", "1", "2", "3", "4", "5", "6", "7", "8", "9"}
LowerSeq == <<"a", "b", "c", "d", "e", "f", "g", "h", "i", "j", "k", "l", "m",
              "n", "o", "p", "q", "r", "s", "t", "u", "v", "w", "x", "y", "z">>
UpperSeq == <<"A", "B", "C", "D", "E", "F", "G", "H", "I", "J", "K", "L", "M",
              "N", "O", "P", "Q", "R", "S", "T", "U", "V", "W", "X", "Y", "Z">>
LowerLetters == {LowerSeq[i] : i \in 1..Len(LowerSeq)}
UpperLetters == {UpperSeq[i] : i \in 1..Len(UpperSeq)}
Letters == LowerLetters \cup UpperLetters
WordChars == Letters \cup Digits \cup {"_"}
Spaces == {SP, NL}
HeaderFlowers == {CherryBlossom, Hibiscus, Tulip, Rose, Bouquet, Sunflower, BlossomGlyph}
FallbackFlowers == {CherryBlossom, Hibiscus, Tulip, Bouquet}
Punct == {".", ",", "#", "*", "_", "(", ")", "'", ":", "-", "[", "]", "/"}
FGBGlyphs == {TreeGlyph, FoxGlyph, LabelGlyph, VariationSelector}
Quote == "DQ"
Backtick == "BT"
JsonPunct == {"{", "}", Quote, Backtick}
\* the en dash and further punctuation of page titles
EnDash == "U+2013"
TitlePunct == {"|", "&", "+", EnDash}
Chars == Letters \cup Digits \cup Spaces \cup HeaderFlowers \cup FGBGlyphs \cup Punct
         \cup JsonPunct \cup TitlePunct

Lower(c) ==
    IF c \in UpperLetters THEN LowerSeq[CHOOSE i \in 1..Len(UpperSeq) : UpperSeq[i] = c] ELSE c
Upper(c) ==
    IF c \in LowerLetters THEN UpperSeq[CHOOSE i \in 1..Len(LowerSeq) : LowerSeq[i] = c] ELSE c

\* ------------------------------------------------------------------------
\* Python str methods
\* ------------------------------------------------------------------------
Min(a, b) == IF a < b THEN a ELSE b
Max(a, b) == IF a < b THEN b ELSE a
\* min(S) of a non-empty set
SetMin(S) == CHOOSE e \in S : \A f \in S : e <= f
\* a local name: Body is evaluated with its parameter bound to v
Bind(v, Body(_)) == Body(v)

StrLower(s) == [i \in 1..Len(s) |-> Lower(s[i])]
StrUpper(s) == [i \in 1..Len(s) |-> Upper(s[i])]

\* s[from-1 : to] of Python, 1-based inclusive here; empty when from > to
Slice(s, from, to) == IF from > to THEN <<>> ELSE SubSeq(s, from, to)

RECURSIVE LStripOf(_, _)
LStripOf(s, set) == IF s # <<>> /\ Head(s) \in set THEN LStripOf(Tail(s), set) ELSE s

RECURSIVE RStripOf(_, _)
RStripOf(s, set) ==
    IF s # <<>> /\ s[Len(s)] \in set THEN RStripOf(SubSeq(s, 1, Len(s) - 1), set) ELSE s

\* str.strip(): whitespace off both ends
Strip(s) == RStripOf(LStripOf(s, Spaces), Spaces)

\* s[:n]: the first n characters, all of s when it is shorter
Prefix(s, n) == SubSeq(s, 1, Min(n, Len(s)))

\* str.replace(c, '') for a one-character c
RemoveChar(s, c) == SelectSeq(s, LAMBDA x : x # c)

\* re.sub(r'[set]{minlen,}', repl, s): every maximal run of at least minlen
\* characters of set is replaced by repl
RECURSIVE RunOf(_, _, _)
RunOf(s, set, n) == IF n < Len(s) /\ s[n + 1] \in set THEN RunOf(s, set, n + 1) ELSE n

RECURSIVE SubRuns(_, _, _, _)
SubRuns(s, set, minlen, repl) ==
    IF s = <<>> THEN <<>>
    ELSE LET n == RunOf(s, set, 0)
         IN IF n = 0 THEN <<Head(s)>> \o SubRuns(Tail(s), set, minlen, repl)
            ELSE (IF n >= minlen THEN repl ELSE SubSeq(s, 1, n))
                 \o SubRuns(SubSeq(s, n + 1, Len(s)), set, minlen, repl)

\* str.split('\n')[0]: the text before the first newline
RECURSIVE FirstLine(_)
FirstLine(s) == IF s = <<>> \/ Head(s) = NL THEN <<>> ELSE <<Head(s)>> \o FirstLine(Tail(s))

\* str.title(): first letter of every run of letters upper-cased, the rest lower-cased
StrTitle(s) ==
    [i \in 1..Len(s) |->
        IF i = 1 \/ s[i - 1] \notin Letters THEN Upper(s[i]) ELSE Lower(s[i])]

DigitVal(c) ==
    CASE c = "0" -> 0 [] c = "1" -> 1 [] c = "2" -> 2 [] c = "3" -> 3 [] c = "4" -> 4
      [] c = "5" -> 5 [] c = "6" -> 6 [] c = "7" -> 7 [] c = "8" -> 8 [] c = "9" -> 9

RECURSIVE DigitsValue(_)
DigitsValue(s) ==
    IF s = <<>> THEN 0 ELSE 10 * DigitsValue(SubSeq(s, 1, Len(s) - 1)) + DigitVal(s[Len(s)])

\* ------------------------------------------------------------------------
\* Python values and call outcomes
\* ------------------------------------------------------------------------
None == [t |-> "None"]
StrV(s) == [t |-> "str", s |-> s]
IntV(i) == [t |-> "int", i |-> i]
BoolV(b) == [t |-> "bool", b |-> b]
ListV(l) == [t |-> "list", l |-> l]
\* a dict is its items in insertion order, each <<key, value>>
DictV(items) == [t |-> "dict", items |-> items]

Ret(v) == [raised |-> FALSE, val |-> v]
Raise(e) == [raised |-> TRUE, exc |-> e]

\* bool(v) of Python for the values above
Truthy(v) ==
    CASE v.t = "None" -> FALSE
      [] v.t = "str" -> v.s # <<>>
      [] v.t = "int" -> v.i # 0
      [] v.t = "bool" -> v.b
      [] v.t = "list" -> v.l # <<>>
      [] v.t = "dict" -> v.items # <<>>
      [] OTHER -> TRUE

\* int(s): surrounding whitespace is ignored, then one or more digits
PyInt(s) ==
    LET core == Strip(s)
    IN IF core # <<>> /\ \A i \in 1..Len(core) : core[i] \in Digits
       THEN Ret(IntV(DigitsValue(core)))
       ELSE Raise("ValueError")

\* ------------------------------------------------------------------------
\* Regular expressions (module re): a backtracking matcher
\*
\* A pattern is a sequence of items tried left to right with Python's
\* backtracking priorities:
\*   [k |-> "cls", set, min, max, lazy]  a quantified character class
\*   [k |-> "alt", alts]                 ordered literal alternatives  (A|B|C)
\*   [k |-> "bol"], [k |-> "eol"], [k |-> "wb"]   the anchors ^, $ and \b
\*   [k |-> "nl_or_eol"]                 the group (?:\n|$)
\*   [k |-> "grp", items, min, max]      a quantified group (?:...)?, (?:...)+
\* groups[g] = <<i, j>>: capture group g spans items i..j.
\* icase, multiline: the flags re.IGNORECASE and re.MULTILINE.
\* ------------------------------------------------------------------------
\* {min,max}, {min,} and their lazy forms
Cls(set, min, max) ==
    [k |-> "cls", set |-> set, min |-> min, capped |-> TRUE, max |-> max, lazy |-> FALSE]
Rep(set, min) ==
    [k |-> "cls", set |-> set, min |-> min, capped |-> FALSE, max |-> min, lazy |-> FALSE]
LazyRep(set, min) ==
    [k |-> "cls", set |-> set, min |-> min, capped |-> FALSE, max |-> min, lazy |-> TRUE]
Alt(alts) == [k |-> "alt", alts |-> alts]
Lit(s) == [k |-> "alt", alts |-> <<s>>]
Bol == [k |-> "bol"]
Eol == [k |-> "eol"]
WordBoundary == [k |-> "wb"]
NlOrEol == [k |-> "nl_or_eol"]
\* (?:items)? and (?:items)+
OptGroup(items) == [k |-> "grp", items |-> items, min |-> 0, capped |-> TRUE, max |-> 1]
RepGroup(items) == [k |-> "grp", items |-> items, min |-> 1, capped |-> FALSE, max |-> 1]
Regex(items, groups, icase, multiline) ==
    [items |-> items, groups |-> groups, icase |-> icase, multiline |-> multiline]

InClass(set, icase, c) ==
    c \in set \/ (icase /\ (Lower(c) \in set \/ Upper(c) \in set))

\* the length of the longest run of class characters at p, from n up to the
\* item's maximum: the least length at which the run cannot go on
RunLen(it, icase, s, p, n) ==
    SetMin({m \in n..(Len(s) - p + 1) :
              \/ it.capped /\ m >= it.max
              \/ p + m > Len(s)
              \/ ~InClass(it.set, icase, s[p + m])})

LitAt(lit, icase, s, p) ==
    /\ p + Len(lit) - 1 <= Len(s)
    /\ \A i \in 1..Len(lit) :
          IF icase THEN Lower(s[p + i - 1]) = Lower(lit[i]) ELSE s[p + i - 1] = lit[i]

RECURSIVE AltEnds(_, _, _, _, _)
AltEnds(alts, icase, s, p, i) ==
    IF i > Len(alts) THEN <<>>
    ELSE (IF LitAt(alts[i], icase, s, p) THEN <<p + Len(alts[i])>> ELSE <<>>)
         \o AltEnds(alts, icase, s, p, i + 1)

IsWordAt(s, p) == p >= 1 /\ p <= Len(s) /\ s[p] \in WordChars

\* $ matches at the end, before a final newline, and with re.MULTILINE before
\* every newline
AtEol(re, s, p) ==
    \/ p = Len(s) + 1
    \/ p = Len(s) /\ s[p] = NL
    \/ re.multiline /\ p <= Len(s) /\ s[p] = NL

RECURSIVE ItemEnds(_, _, _, _)

\* the positions at which items k.. of a group body, started at p, may end
RECURSIVE SeqEnds(_, _, _, _, _)
RECURSIVE SeqEndsOver(_, _, _, _, _, _)
SeqEnds(re, items, k, s, p) ==
    IF k > Len(items) THEN <<p>>
    ELSE SeqEndsOver(re, items, k, s, ItemEnds(re, items[k], s, p), 1)

SeqEndsOver(re, items, k, s, ends, j) ==
    IF j > Len(ends) THEN <<>>
    ELSE SeqEnds(re, items, k + 1, s, ends[j]) \o SeqEndsOver(re, items, k, s, ends, j + 1)

\* the ends of a greedy group after n repetitions that ended at p: one more
\* repetition first, then none
RECURSIVE GroupEnds(_, _, _, _, _)
RECURSIVE GroupEndsOver(_, _, _, _, _, _)
GroupEnds(re, it, s, p, n) ==
    (IF it.capped /\ n >= it.max THEN <<>>
     ELSE GroupEndsOver(re, it, s, n, SelectSeq(SeqEnds(re, it.items, 1, s, p),
                                                 LAMBDA e : e > p), 1))
    \o (IF n >= it.min THEN <<p>> ELSE <<>>)

GroupEndsOver(re, it, s, n, ends, j) ==
    IF j > Len(ends) THEN <<>>
    ELSE GroupEnds(re, it, s, ends[j], n + 1) \o GroupEndsOver(re, it, s, n, ends, j + 1)

\* the positions at which item it, started at p, may end, in the order the
\* backtracking engine tries them
ItemEnds(re, it, s, p) ==
    CASE it.k = "cls" ->
            LET m == RunLen(it, re.icase, s, p, 0)
            IN IF m < it.min THEN <<>>
               ELSE IF it.lazy
                    THEN [j \in 1..(m - it.min + 1) |-> p + it.min + j - 1]
                    ELSE [j \in 1..(m - it.min + 1) |-> p + m - j + 1]
      [] it.k = "alt" -> AltEnds(it.alts, re.icase, s, p, 1)
      [] it.k = "bol" ->
            IF p = 1 \/ (re.multiline /\ s[p - 1] = NL) THEN <<p>> ELSE <<>>
      [] it.k = "eol" -> IF AtEol(re, s, p) THEN <<p>> ELSE <<>>
      [] it.k = "nl_or_eol" ->
            (IF p <= Len(s) /\ s[p] = NL THEN <<p + 1>> ELSE <<>>)
            \o (IF AtEol(re, s, p) THEN <<p>> ELSE <<>>)
      [] it.k = "wb" ->
            IF IsWordAt(s, p - 1) # IsWordAt(s, p) THEN <<p>> ELSE <<>>
      [] it.k = "grp" -> GroupEnds(re, it, s, p, 0)

\* MatchFrom(re, k, s, p): items k.. of re matched at position p of s.
\* The result is the sequence of item boundaries <<p_k, ..., p_end>> of the
\* first successful alternative, or <<>> when there is none.
RECURSIVE MatchFrom(_, _, _, _)
RECURSIVE TryEnds(_, _, _, _, _, _)
MatchFrom(re, k, s, p) ==
    IF k > Len(re.items) THEN <<p>>
    ELSE TryEnds(re, k, s, p, ItemEnds(re, re.items[k], s, p), 1)

TryEnds(re, k, s, p, ends, j) ==
    IF j > Len(ends) THEN <<>>
    ELSE LET rest == MatchFrom(re, k + 1, s, ends[j])
         IN IF rest # <<>> THEN <<p>> \o rest ELSE TryEnds(re, k, s, p, ends, j + 1)

\* re.match: anchored at the start of s
ReMatch(re, s) == MatchFrom(re, 1, s, 1)

\* re.search, scanning from position p on
SearchFrom(re, s, p) ==
    Bind({q \in p..(Len(s) + 1) : MatchFrom(re, 1, s, q) # <<>>}, LAMBDA starts :
        IF starts = {} THEN <<>> ELSE MatchFrom(re, 1, s, SetMin(starts)))

ReSearch(re, s) == SearchFrom(re, s, 1)

MatchStart(m) == m[1]
MatchEnd(m) == m[Len(m)]
NumGroups(re) == Len(re.groups)

\* text of group g of match m; g = 0 is the whole match
GroupText(re, s, m, g) ==
    IF g = 0 THEN Slice(s, MatchStart(m), MatchEnd(m) - 1)
    ELSE Slice(s, m[re.groups[g][1]], m[re.groups[g][2] + 1] - 1)

\* match.group(g): IndexError when the pattern has no group g
MatchGroup(re, s, m, g) ==
    IF g \in 0..NumGroups(re) THEN Ret(StrV(GroupText(re, s, m, g))) ELSE Raise("IndexError")

\* re.findall: the non-overlapping matches left to right; each is reported
\* as the whole match (no group), the text of group 1 (one group), or the
\* tuple of the texts of groups 1..n (several groups)
FindAllItem(re, s, m) ==
    IF NumGroups(re) = 0 THEN StrV(GroupText(re, s, m, 0))
    ELSE IF NumGroups(re) = 1 THEN StrV(GroupText(re, s, m, 1))
    ELSE [t |-> "tuple", l |-> [g \in 1..NumGroups(re) |-> StrV(GroupText(re, s, m, g))]]

RECURSIVE FindAllFrom(_, _, _)
FindAllFrom(re, s, p) ==
    LET m == SearchFrom(re, s, p)
    IN IF m = <<>> THEN <<>>
       ELSE <<FindAllItem(re, s, m)>>
            \o FindAllFrom(re, s, IF MatchEnd(m) > MatchStart(m)
                                  THEN MatchEnd(m) ELSE MatchEnd(m) + 1)

ReFindAll(re, s) == FindAllFrom(re, s, 1)

\* re.sub(re, repl, s): every non-overlapping match, left to right, replaced
\* by repl; after an empty match the scan moves on by one character
RECURSIVE SubFrom(_, _, _, _)
SubFrom(re, repl, s, p) ==
    Bind(SearchFrom(re, s, p), LAMBDA m :
        IF m = <<>> THEN Slice(s, p, Len(s))
        ELSE IF MatchEnd(m) > MatchStart(m)
        THEN Slice(s, p, MatchStart(m) - 1) \o repl \o SubFrom(re, repl, s, MatchEnd(m))
        ELSE Slice(s, p, MatchStart(m) - 1) \o repl \o Slice(s, MatchStart(m), MatchStart(m))
             \o SubFrom(re, repl, s, MatchStart(m) + 1))

ReSub(re, repl, s) == SubFrom(re, repl, s, 1)

\* re.split(re, s) for a pattern without groups that matches no empty text:
\* the pieces of s between the matches
RECURSIVE SplitFrom(_, _, _)
SplitFrom(re, s, p) ==
    Bind(SearchFrom(re, s, p), LAMBDA m :
        IF m = <<>> THEN <<Slice(s, p, Len(s))>>
        ELSE <<Slice(s, p, MatchStart(m) - 1)>> \o SplitFrom(re, s, MatchEnd(m)))

ReSplit(re, s) == SplitFrom(re, s, 1)

\* ------------------------------------------------------------------------
\* models.ParsedBroadcast (a pydantic model)
\* ------------------------------------------------------------------------
StrFields == {"type", "eta", "close_date", "title", "title_en", "publisher", "format",
              "min_order", "description_en", "separator_emoji"}
IntFields == {"price_main", "price_secondary"}
ListFields == {"tags", "preview_links"}
ModelFields == StrFields \cup IntFields \cup ListFields \cup {"media_count", "raw_text"}

FieldDefault(f) ==
    IF f \in ListFields THEN ListV(<<>>)
    ELSE IF f = "media_count" THEN IntV(0)
    ELSE IF f = "raw_text" THEN StrV(<<>>)
    ELSE None

\* an int field takes an int, a bool or a numeric string
ValidateInt(v) ==
    CASE v.t = "int" -> Ret(v)
      [] v.t = "bool" -> Ret(IntV(IF v.b THEN 1 ELSE 0))
      [] v.t = "str" -> IF PyInt(v.s).raised THEN Raise("ValidationError") ELSE PyInt(v.s)
      [] OTHER -> Raise("ValidationError")

\* validation of one keyword argument against the declared type of field f
ValidateField(f, v) ==
    CASE f \in StrFields ->
            IF v.t \in {"None", "str"} THEN Ret(v) ELSE Raise("ValidationError")
      [] f = "raw_text" ->
            IF v.t = "str" THEN Ret(v) ELSE Raise("ValidationError")
      [] f \in IntFields ->
            IF v.t = "None" THEN Ret(v) ELSE ValidateInt(v)
      [] f = "media_count" -> ValidateInt(v)
      [] f \in ListFields ->
            IF v.t = "list" /\ \A i \in 1..Len(v.l) : v.l[i].t = "str"
            THEN Ret(v) ELSE Raise("ValidationError")

\* a variant of the model class that strips its string fields, as pydantic's
\* str_strip_whitespace option would: raw_text is then no longer the input
ParsedBroadcastStripping(kw) ==
    LET given == DOMAIN kw \cap ModelFields
        stripped(v) == IF v.t = "str" THEN StrV(Strip(v.s)) ELSE v
    IN IF \E f \in given : ValidateField(f, kw[f]).raised
       THEN Raise("ValidationError")
       ELSE Ret([f \in ModelFields |->
                    IF f \in given THEN stripped(ValidateField(f, kw[f]).val)
                    ELSE FieldDefault(f)])

\* a variant of the model class that stores its keywords as they are given,
\* without validating them against the declared types
ParsedBroadcastUnvalidated(kw) ==
    Ret([f \in ModelFields |-> IF f \in DOMAIN kw THEN kw[f] ELSE FieldDefault(f)])

\* ParsedBroadcast(**kw): keywords that name no declared field are ignored
\* (pydantic's default extra = 'ignore'), declared ones are validated,
\* missing ones take their default
ParsedBroadcast(kw) ==
    LET given == DOMAIN kw \cap ModelFields
    IN IF \E f \in given : ValidateField(f, kw[f]).raised
       THEN Raise("ValidationError")
       ELSE Ret([f \in ModelFields |->
                    IF f \in given THEN ValidateField(f, kw[f]).val ELSE FieldDefault(f)])

\* getattr(record, name)
GetAttr(rec, name) == IF name \in DOMAIN rec THEN Ret(rec[name]) ELSE Raise("AttributeError")

\* ------------------------------------------------------------------------
\* littlerazy_parser.LitterazyParser
\* ------------------------------------------------------------------------
TitleMaxLen == 100

HEADER_PATTERN ==
    Regex(<<Bol,
            LazyRep(Chars, 1),
            Rep(Spaces, 1),
            Alt(<<<<"H", "C">>, <<"H", "B">>, <<"P", "B">>, <<"B", "B">>>>),
            Rep(Spaces, 1),
            Rep(Digits \cup {"."}, 1),
            Rep(Spaces, 1),
            Lit(<<"E", "T", "A">>),
            Rep(Spaces, 1),
            Rep(WordChars, 1),
            Rep(Spaces, 1),
            Rep(HeaderFlowers, 1),
            Rep(Spaces, 0),
            Rep(Chars, 0)>>,
          <<<<2, 2>>, <<4, 4>>, <<6, 6>>, <<10, 10>>, <<12, 12>>, <<14, 14>>>>,
          TRUE, FALSE)
GroupTitle == 1
GroupFormat == 2
GroupPrice == 3
GroupEta == 4
GroupEmoji == 5
GroupDescription == 6

LitterazyParser_clean_title(title) ==
    StrTitle(Strip(SubRuns(title, Spaces, 1, <<SP>>)))

month_map ==
    <<<<<<"J", "A", "N">>, <<"J", "a", "n", " ", "'", "2", "5">>>>,
       <<<<"F", "E", "B">>, <<"F", "e", "b", " ", "'", "2", "5">>>>,
       <<<<"M", "A", "R">>, <<"M", "a", "r", " ", "'", "2", "5">>>>,
       <<<<"A", "P", "R">>, <<"A", "p", "r", " ", "'", "2", "5">>>>,
       <<<<"M", "E", "I">>, <<"M", "e", "i", " ", "'", "2", "5">>>>,
       <<<<"M", "A", "Y">>, <<"M", "a", "y", " ", "'", "2", "5">>>>,
       <<<<"J", "U", "N">>, <<"J", "u", "n", " ", "'", "2", "5">>>>,
       <<<<"J", "U", "L">>, <<"J", "u", "l", " ", "'", "2", "5">>>>,
       <<<<"A", "U", "G">>, <<"A", "u", "g", " ", "'", "2", "5">>>>,
       <<<<"A", "G", "U">>, <<"A", "u", "g", " ", "'", "2", "5">>>>,
       <<<<"S", "E", "P">>, <<"S", "e", "p", " ", "'", "2", "5">>>>,
       <<<<"O", "K", "T">>, <<"O", "c", "t", " ", "'", "2", "5">>>>,
       <<<<"O", "C", "T">>, <<"O", "c", "t", " ", "'", "2", "5">>>>,
       <<<<"N", "O", "V">>, <<"N", "o", "v", " ", "'", "2", "5">>>>,
       <<<<"D", "E", "S">>, <<"D", "e", "c", " ", "'", "2", "5">>>>,
       <<<<"D", "E", "C">>, <<"D", "e", "c", " ", "'", "2", "5">>>>>>

YearSuffix == <<" ", "'", "2", "5">>

LitterazyParser_format_eta(month) ==
    LET key == StrUpper(month)
        hits == {i \in 1..Len(month_map) : month_map[i][1] = key}
    IN IF hits # {} THEN month_map[CHOOSE i \in hits : TRUE][2] ELSE month \o YearSuffix

LitterazyParser_clean_description(description) ==
    Strip(SubRuns(SubRuns(description, {NL}, 3, <<NL, NL>>), {SP}, 1, <<SP>>))

\* r'^([^...]+)': the run of non-flower characters at the start of the line
FallbackTitlePattern ==
    Regex(<<Bol, Rep(Chars \ FallbackFlowers, 1)>>, <<<<2, 2>>>>, FALSE, FALSE)

\* r'\b(\d{2,3})\.(\d{3})\b'
FallbackPricePattern ==
    Regex(<<WordBoundary, Cls(Digits, 2, 3), Lit(<<".">>), Cls(Digits, 3, 3), WordBoundary>>,
          <<<<2, 2>>, <<4, 4>>>>, FALSE, FALSE)

LitterazyParser_fallback_parse(text, media_count) ==
    LET result == ParsedBroadcast([raw_text |-> StrV(text),
                                   media_count |-> IntV(media_count)]).val
        first_line == Strip(FirstLine(Strip(text)))
        title_match == ReMatch(FallbackTitlePattern, first_line)
        title == Prefix(Strip(GroupText(FallbackTitlePattern, first_line, title_match, 1)),
                        TitleMaxLen)
        with_title == IF title_match # <<>>
                      THEN [result EXCEPT !.title = StrV(title), !.title_en = StrV(title)]
                      ELSE result
        price_match == ReSearch(FallbackPricePattern, text)
        price == PyInt(GroupText(FallbackPricePattern, text, price_match, 1)
                       \o GroupText(FallbackPricePattern, text, price_match, 2))
        with_price == IF price_match # <<>>
                      THEN [with_title EXCEPT !.price_main = price.val]
                      ELSE with_title
    IN Ret([with_price EXCEPT !.description_en = StrV(text)])

LitterazyParser_parse(text, media_count) ==
    LET result == ParsedBroadcast([raw_text |-> StrV(text),
                                   media_count |-> IntV(media_count)]).val
        stripped == Strip(text)
        match == ReMatch(HEADER_PATTERN, stripped)
        group(g) == GroupText(HEADER_PATTERN, stripped, match, g)
        price == PyInt(RemoveChar(RemoveChar(group(GroupPrice), "."), ","))
    IN IF match # <<>>
       THEN IF price.raised THEN price
            ELSE Ret([result EXCEPT
                        !.title = StrV(LitterazyParser_clean_title(Strip(group(GroupTitle)))),
                        !.title_en = StrV(LitterazyParser_clean_title(Strip(group(GroupTitle)))),
                        !.format = StrV(StrUpper(group(GroupFormat))),
                        !.price_main = price.val,
                        !.eta = StrV(LitterazyParser_format_eta(StrUpper(group(GroupEta)))),
                        !.description_en =
                            StrV(LitterazyParser_clean_description(Strip(group(GroupDescription)))),
                        !.separator_emoji = StrV(group(GroupEmoji)),
                        !.type = StrV(<<"R", "e", "q", "u", "e", "s", "t">>),
                        !.tags = ListV(<<>>)])
       ELSE LitterazyParser_fallback_parse(text, media_count)

\* ------------------------------------------------------------------------
\* parser.FGBParser
\* ------------------------------------------------------------------------
\* one entry of a field's rule list in config/parser-rules.yaml; the engine
\* compiles every regex with re.IGNORECASE | re.MULTILINE
Rule(regex, group, transform, multi) ==
    [regex |-> regex, group |-> group, transform |-> transform, multi |-> multi]

\* dict.get(key, default) on a configuration mapping
DictGet(d, key, default) == IF key \in DOMAIN d THEN d[key] ELSE default

\* the value a multi rule returns for the non-empty findall result matches
MultiValue(matches, group) ==
    IF matches[1].t = "str" THEN Ret(ListV(matches))
    ELSE IF \E i \in 1..Len(matches) : matches[i].t = "tuple" /\ group + 1 > Len(matches[i].l)
         THEN Raise("IndexError")
         ELSE Ret(ListV([i \in 1..Len(matches) |->
                            IF matches[i].t = "tuple" THEN matches[i].l[group + 1]
                            ELSE matches[i]]))

\* the value a single-match rule returns for match m
SingleValue(rule, text, m) ==
    Bind(MatchGroup(rule.regex, text, m, rule.group), LAMBDA value :
        IF value.raised THEN value
        ELSE IF rule.transform = "remove_separators"
             THEN PyInt(RemoveChar(RemoveChar(value.val.s, "."), ","))
             ELSE value)

\* one pass of the loop body: whether the rule matched, and what the body did
RuleOutcome(rule, text) ==
    IF rule.multi
    THEN Bind(ReFindAll(rule.regex, text), LAMBDA matches :
            IF matches # <<>>
            THEN [matched |-> TRUE, out |-> MultiValue(matches, rule.group)]
            ELSE [matched |-> FALSE])
    ELSE Bind(ReSearch(rule.regex, text), LAMBDA m :
            IF m # <<>>
            THEN [matched |-> TRUE, out |-> SingleValue(rule, text, m)]
            ELSE [matched |-> FALSE])

\* the for loop over field_patterns, from rule i on
RECURSIVE ExtractLoop(_, _, _)
ExtractLoop(field_patterns, text, i) ==
    IF i > Len(field_patterns) THEN Ret(None)
    ELSE Bind(RuleOutcome(field_patterns[i], text), LAMBDA r :
            IF r.matched THEN r.out ELSE ExtractLoop(field_patterns, text, i + 1))

\* a variant of _extract_field without the skip_rules check of lines 18-19
FGBParser_extract_field_unskipped(patterns, skip_rules, text, field_name) ==
    ExtractLoop(DictGet(patterns, field_name, <<>>), text, 1)

FGBParser_extract_field(patterns, skip_rules, text, field_name) ==
    IF DictGet(skip_rules, field_name, FALSE) THEN Ret(None)
    ELSE ExtractLoop(DictGet(patterns, field_name, <<>>), text, 1)

\* r'(tree|fox){2,}'
SeparatorPattern == Regex(<<Rep({TreeGlyph, FoxGlyph}, 2)>>, <<>>, FALSE, FALSE)
\* r'label.*?(?:\n|$)' with re.MULTILINE
PriceLinePattern ==
    Regex(<<Lit(<<LabelGlyph, VariationSelector>>), LazyRep(Chars \ {NL}, 0), NlOrEol>>,
          <<>>, FALSE, TRUE)
\* r'_?Preview\s*:?_?' with re.IGNORECASE
PreviewPattern ==
    Regex(<<Cls({"_"}, 0, 1), Lit(<<"P", "r", "e", "v", "i", "e", "w">>), Rep(Spaces, 0),
            Cls({":"}, 0, 1), Cls({"_"}, 0, 1)>>, <<>>, TRUE, FALSE)
\* r'\*?\s*https?://'
LinkPattern ==
    Regex(<<Cls({"*"}, 0, 1), Rep(Spaces, 0), Lit(<<"h", "t", "t", "p">>), Cls({"s"}, 0, 1),
            Lit(<<":", "/", "/">>)>>, <<>>, FALSE, FALSE)

\* a variant of _extract_description that ends the description at the
\* 'Preview' marker only, without the link search of line 64
FGBParser_extract_description_unlinked(text) ==
    Bind(ReSearch(SeparatorPattern, text), LAMBDA separator_match :
    Bind(ReSearch(PriceLinePattern, text), LAMBDA price_match :
    Bind(IF separator_match # <<>> THEN MatchEnd(separator_match) ELSE MatchEnd(price_match),
         LAMBDA start_pos :
    Bind(Slice(text, start_pos, Len(text)), LAMBDA remaining_text :
    Bind(ReSearch(PreviewPattern, remaining_text), LAMBDA preview_match :
    Bind(IF preview_match # <<>>
         THEN Strip(Slice(remaining_text, 1, MatchStart(preview_match) - 1))
         ELSE Strip(remaining_text),
         LAMBDA description :
        IF separator_match = <<>> /\ price_match = <<>> THEN <<>>
        ELSE Strip(SubRuns(SubRuns(description, {"*", "_"}, 1, <<>>), Spaces, 1, <<SP>>))
    ))))))

FGBParser_extract_description(text) ==
    Bind(ReSearch(SeparatorPattern, text), LAMBDA separator_match :
    Bind(ReSearch(PriceLinePattern, text), LAMBDA price_match :
    Bind(IF separator_match # <<>> THEN MatchEnd(separator_match) ELSE MatchEnd(price_match),
         LAMBDA start_pos :
    Bind(Slice(text, start_pos, Len(text)), LAMBDA remaining_text :
    Bind(ReSearch(PreviewPattern, remaining_text), LAMBDA preview_match :
    Bind(ReSearch(LinkPattern, remaining_text), LAMBDA link_match :
    Bind((IF preview_match # <<>> THEN {MatchStart(preview_match)} ELSE {})
         \cup (IF link_match # <<>> THEN {MatchStart(link_match)} ELSE {}),
         LAMBDA end_positions :
    Bind(IF end_positions # {}
         THEN Strip(Slice(remaining_text, 1, SetMin(end_positions) - 1))
         ELSE Strip(remaining_text),
         LAMBDA description :
        IF separator_match = <<>> /\ price_match = <<>> THEN <<>>
        ELSE Strip(SubRuns(SubRuns(description, {"*", "_"}, 1, <<>>), Spaces, 1, <<SP>>))
    ))))))))

\* the fields parse() extracts one by one, in this order, as <<rule-table
\* key, attribute it is stored in>>; tags and preview_links fall back to []
ParseFields ==
    <<<<"type", "type">>, <<"eta", "eta">>, <<"close_date", "close_date">>,
      <<"title", "title">>, <<"format", "format">>, <<"publisher", "publisher">>,
      <<"price_main", "price_main">>, <<"price_secondary", "price_secondary">>,
      <<"min_order", "min_order">>, <<"separator", "separator_emoji">>,
      <<"tags", "tags">>, <<"preview_links", "preview_links">>>>

RECURSIVE ParseFieldsFrom(_, _, _, _, _)
ParseFieldsFrom(patterns, skip_rules, text, result, i) ==
    IF i > Len(ParseFields) THEN Ret(result)
    ELSE Bind(FGBParser_extract_field(patterns, skip_rules, text, ParseFields[i][1]),
              LAMBDA v :
         Bind(ParseFields[i][2], LAMBDA attr :
            IF v.raised THEN v
            ELSE ParseFieldsFrom(patterns, skip_rules, text,
                                 [result EXCEPT
                                    ![attr] = IF attr \in ListFields /\ ~Truthy(v.val)
                                              THEN ListV(<<>>) ELSE v.val],
                                 i + 1)))

FGBParser_parse(patterns, skip_rules, text, media_count) ==
    Bind(ParsedBroadcast([raw_text |-> StrV(text), media_count |-> IntV(media_count)]).val,
         LAMBDA result :
    Bind(ParseFieldsFrom(patterns, skip_rules, text, result, 1), LAMBDA fields :
        IF fields.raised THEN fields
        ELSE Ret([fields.val EXCEPT
                     !.description_en = StrV(FGBParser_extract_description(text)),
                     !.title_en = fields.val.title])))

\* ------------------------------------------------------------------------
\* Rule tables: configurations FGBParser.__init__ may load
\* ------------------------------------------------------------------------
\* r'#([\d.,]+)', r'(\d+)', r'#(a+)', r'a+', r'a\d', r'a(\d)', r'(a)(\d)'
ReLabelPrice ==
    Regex(<<Lit(<<"#">>), Rep(Digits \cup {".", ","}, 1)>>, <<<<2, 2>>>>, TRUE, TRUE)
ReDigits == Regex(<<Rep(Digits, 1)>>, <<<<1, 1>>>>, TRUE, TRUE)
ReLabelWord == Regex(<<Lit(<<"#">>), Rep({"a"}, 1)>>, <<<<2, 2>>>>, TRUE, TRUE)
ReWord == Regex(<<Rep({"a"}, 1)>>, <<>>, TRUE, TRUE)
RePair0 == Regex(<<Lit(<<"a">>), Cls(Digits, 1, 1)>>, <<>>, TRUE, TRUE)
RePair1 == Regex(<<Lit(<<"a">>), Cls(Digits, 1, 1)>>, <<<<2, 2>>>>, TRUE, TRUE)
RePair2 == Regex(<<Lit(<<"a">>), Cls(Digits, 1, 1)>>, <<<<1, 1>>, <<2, 2>>>>, TRUE, TRUE)

NoTransform == "none"
RemoveSeparators == "remove_separators"

\* a price rule that can capture bare separators, tried before a digits-only
\* rule; single-match rules in declared order; multi rules over patterns
\* with zero, one and two capture groups
TableA ==
    [price_main |-> <<Rule(ReLabelPrice, 1, RemoveSeparators, FALSE),
                      Rule(ReDigits, 1, RemoveSeparators, FALSE)>>,
     title |-> <<Rule(ReLabelWord, 1, NoTransform, FALSE),
                 Rule(ReWord, 0, NoTransform, FALSE)>>,
     tags |-> <<Rule(RePair1, 1, NoTransform, TRUE)>>,
     preview_links |-> <<Rule(RePair0, 0, NoTransform, TRUE)>>,
     type |-> <<Rule(RePair2, 1, NoTransform, TRUE)>>]

\* digits-only price; multi rules in declared order; a one-group multi rule
\* with the default group 0; rules whose group the pattern does not have
TableB ==
    [price_main |-> <<Rule(ReDigits, 1, RemoveSeparators, FALSE)>>,
     title |-> <<Rule(ReWord, 0, NoTransform, FALSE)>>,
     tags |-> <<Rule(RePair0, 0, NoTransform, TRUE), Rule(ReWord, 0, NoTransform, TRUE)>>,
     publisher |-> <<Rule(RePair1, 0, NoTransform, TRUE)>>,
     format |-> <<Rule(RePair2, 2, NoTransform, TRUE)>>,
     eta |-> <<Rule(ReLabelWord, 2, NoTransform, FALSE)>>]

NoSkip == [f \in {} |-> FALSE]
SkipPrice == [price_main |-> TRUE, title |-> FALSE]

Configs ==
    {[patterns |-> TableA, skip_rules |-> NoSkip],
     [patterns |-> TableA, skip_rules |-> SkipPrice],
     [patterns |-> TableB, skip_rules |-> NoSkip]}

\* ------------------------------------------------------------------------
\* json.loads, for documents made of objects, arrays, strings without
\* escapes, non-negative integers, null, true and false
\* ------------------------------------------------------------------------
JsonFail == [ok |-> FALSE]
JsonOk(v, next) == [ok |-> TRUE, val |-> v, next |-> next]

RECURSIVE SkipWs(_, _)
SkipWs(s, p) == IF p <= Len(s) /\ s[p] \in Spaces THEN SkipWs(s, p + 1) ELSE p

RECURSIVE ScanTo(_, _, _)
ScanTo(s, p, c) == IF p > Len(s) THEN 0 ELSE IF s[p] = c THEN p ELSE ScanTo(s, p + 1, c)

RECURSIVE DigitRun(_, _)
DigitRun(s, p) == IF p <= Len(s) /\ s[p] \in Digits THEN DigitRun(s, p + 1) ELSE p

HasAt(s, p, lit) == p + Len(lit) - 1 <= Len(s) /\ SubSeq(s, p, p + Len(lit) - 1) = lit

JsonString(s, p) ==
    IF p <= Len(s) /\ s[p] = Quote /\ ScanTo(s, p + 1, Quote) # 0
    THEN JsonOk(StrV(Slice(s, p + 1, ScanTo(s, p + 1, Quote) - 1)), ScanTo(s, p + 1, Quote) + 1)
    ELSE JsonFail

RECURSIVE JsonValue(_, _)
RECURSIVE JsonMembers(_, _, _)
RECURSIVE JsonElements(_, _, _)
\* a value starting at p (whitespace before it is skipped)
JsonValue(s, p0) ==
    LET p == SkipWs(s, p0)
    IN IF p > Len(s) THEN JsonFail
       ELSE IF s[p] = "{" THEN
               (IF SkipWs(s, p + 1) <= Len(s) /\ s[SkipWs(s, p + 1)] = "}"
                THEN JsonOk(DictV(<<>>), SkipWs(s, p + 1) + 1)
                ELSE JsonMembers(s, p + 1, <<>>))
       ELSE IF s[p] = "[" THEN
               (IF SkipWs(s, p + 1) <= Len(s) /\ s[SkipWs(s, p + 1)] = "]"
                THEN JsonOk(ListV(<<>>), SkipWs(s, p + 1) + 1)
                ELSE JsonElements(s, p + 1, <<>>))
       ELSE IF s[p] = Quote THEN JsonString(s, p)
       ELSE IF s[p] = "0" THEN JsonOk(IntV(0), p + 1)
       ELSE IF s[p] \in Digits THEN JsonOk(IntV(DigitsValue(Slice(s, p, DigitRun(s, p) - 1))),
                                           DigitRun(s, p))
       ELSE IF HasAt(s, p, <<"n", "u", "l", "l">>) THEN JsonOk(None, p + 4)
       ELSE IF HasAt(s, p, <<"t", "r", "u", "e">>) THEN JsonOk(BoolV(TRUE), p + 4)
       ELSE IF HasAt(s, p, <<"f", "a", "l", "s", "e">>) THEN JsonOk(BoolV(FALSE), p + 5)
       ELSE JsonFail

\* "key": value pairs up to the closing brace; acc holds the pairs so far
JsonMembers(s, p0, acc) ==
    LET key == JsonString(s, SkipWs(s, p0))
        colon == SkipWs(s, key.next)
        v == JsonValue(s, colon + 1)
        after == SkipWs(s, v.next)
    IN IF ~key.ok THEN JsonFail
       ELSE IF colon > Len(s) \/ s[colon] # ":" THEN JsonFail
       ELSE IF ~v.ok THEN JsonFail
       ELSE IF after > Len(s) THEN JsonFail
       ELSE IF s[after] = "}" THEN JsonOk(DictV(Append(acc, <<key.val.s, v.val>>)), after + 1)
       ELSE IF s[after] = "," THEN JsonMembers(s, after + 1, Append(acc, <<key.val.s, v.val>>))
       ELSE JsonFail

JsonElements(s, p0, acc) ==
    LET v == JsonValue(s, p0)
        after == SkipWs(s, v.next)
    IN IF ~v.ok THEN JsonFail
       ELSE IF after > Len(s) THEN JsonFail
       ELSE IF s[after] = "]" THEN JsonOk(ListV(Append(acc, v.val)), after + 1)
       ELSE IF s[after] = "," THEN JsonElements(s, after + 1, Append(acc, v.val))
       ELSE JsonFail

\* json.loads(s): one value and nothing but whitespace after it
JsonLoads(s) ==
    LET v == JsonValue(s, 1)
    IN IF v.ok /\ SkipWs(s, v.next) > Len(s) THEN Ret(v.val) ELSE Raise("JSONDecodeError")

\* d.get(key): the value of the last item with that key, None without one;
\* anything but a dict has no get
RECURSIVE ItemsGet(_, _, _)
ItemsGet(items, key, i) ==
    IF i = 0 THEN None
    ELSE IF items[i][1] = key THEN items[i][2] ELSE ItemsGet(items, key, i - 1)

PyGet(d, key) ==
    IF d.t = "dict" THEN Ret(ItemsGet(d.items, key, Len(d.items))) ELSE Raise("AttributeError")

\* ------------------------------------------------------------------------
\* ai_parser.AIParser
\* ------------------------------------------------------------------------
\* what router.generate_text does for the awaiting parser: it raises, or it
\* returns an LLMResponse of which the parser reads .error and .text
LLMRaises == [kind |-> "raise"]
LLMResponse(text, error) == [kind |-> "response", text |-> text, error |-> error]

\* r'\{[^{}]*\}'
JsonObjectPattern ==
    Regex(<<Lit(<<"{">>), Rep(Chars \ {"{", "}"}, 0), Lit(<<"}">>)>>, <<>>, FALSE, FALSE)
\* r'```(?:json)?\s*(\{.*?\})\s*```'
CodeBlockPattern ==
    Regex(<<Lit(<<Backtick, Backtick, Backtick>>), Alt(<<<<"j", "s", "o", "n">>, <<>>>>),
            Rep(Spaces, 0), Lit(<<"{">>), LazyRep(Chars, 0), Lit(<<"}">>), Rep(Spaces, 0),
            Lit(<<Backtick, Backtick, Backtick>>)>>,
          <<<<4, 6>>>>, FALSE, FALSE)

AIParser_parse_json_response(response_text) ==
    IF response_text.t # "str" THEN Raise("AttributeError")
    ELSE Bind(Strip(response_text.s), LAMBDA t :
         Bind(JsonLoads(t), LAMBDA direct :
         Bind(ReSearch(JsonObjectPattern, t), LAMBDA json_match :
         Bind(JsonLoads(GroupText(JsonObjectPattern, t, json_match, 0)), LAMBDA object :
         Bind(ReSearch(CodeBlockPattern, t), LAMBDA code_block_match :
         Bind(JsonLoads(GroupText(CodeBlockPattern, t, code_block_match, 1)), LAMBDA block :
            IF ~direct.raised THEN direct
            ELSE IF json_match # <<>> /\ ~object.raised THEN object
            ELSE IF code_block_match # <<>> /\ ~block.raised THEN block
            ELSE Ret(None)))))))

format_map ==
    <<<<<<"h", "a", "r", "d", "c", "o", "v", "e", "r">>, <<"H", "B">>>>,
      <<<<"h", "b">>, <<"H", "B">>>>,
      <<<<"h", "c">>, <<"H", "B">>>>,
      <<<<"p", "a", "p", "e", "r", "b", "a", "c", "k">>, <<"P", "B">>>>,
      <<<<"p", "b">>, <<"P", "B">>>>,
      <<<<"b", "o", "a", "r", "d", " ", "b", "o", "o", "k">>, <<"B", "B">>>>,
      <<<<"b", "b">>, <<"B", "B">>>>,
      <<<<"b", "o", "a", "r", "d", "b", "o", "o", "k">>, <<"B", "B">>>>>>

FormatMapGet(key, default) ==
    LET hits == {i \in 1..Len(format_map) : format_map[i][1] = key}
    IN IF hits # {} THEN format_map[CHOOSE i \in hits : TRUE][2] ELSE default

KeyTitle == <<"t", "i", "t", "l", "e">>
KeyType == <<"t", "y", "p", "e">>
KeyFormat == <<"f", "o", "r", "m", "a", "t">>
KeyPrice == <<"p", "r", "i", "c", "e">>
KeyStock == <<"s", "t", "o", "c", "k">>
KeyDescription == <<"d", "e", "s", "c", "r", "i", "p", "t", "i", "o", "n">>
KeyTags == <<"t", "a", "g", "s">>
KeyPreviewLinks == <<"p", "r", "e", "v", "i", "e", "w", "_", "l", "i", "n", "k", "s">>
KeyEta == <<"e", "t", "a">>
KeyCloseDate == <<"c", "l", "o", "s", "e", "_", "d", "a", "t", "e">>
KeyPublisher == <<"p", "u", "b", "l", "i", "s", "h", "e", "r">>
KeyPages == <<"p", "a", "g", "e", "s">>

\* the keys _to_parsed_broadcast reads with data.get(key)
DataKeys == {KeyTitle, KeyType, KeyPrice, KeyStock, KeyDescription, KeyTags,
             KeyPreviewLinks, KeyEta, KeyCloseDate, KeyPublisher, KeyPages}

\* x or []
OrEmptyList(v) == IF Truthy(v) THEN v ELSE ListV(<<>>)

AIParser_to_parsed_broadcast(data, raw_text, media_count) ==
    Bind(PyGet(data, KeyFormat), LAMBDA got :
    Bind(IF ~Truthy(got.val) THEN got
         ELSE IF got.val.t # "str" THEN Raise("AttributeError")
         ELSE Ret(StrV(FormatMapGet(StrLower(got.val.s), StrUpper(got.val.s)))),
         LAMBDA format_val :
    Bind([key \in DataKeys |-> PyGet(data, key).val], LAMBDA get :
        IF got.raised THEN got
        ELSE IF format_val.raised THEN format_val
        ELSE ParsedBroadcast(
               [raw_text |-> StrV(raw_text),
                media_count |-> IntV(media_count),
                title |-> get[KeyTitle],
                title_en |-> get[KeyTitle],
                type |-> get[KeyType],
                format |-> format_val.val,
                price_main |-> get[KeyPrice],
                stock |-> get[KeyStock],
                description_en |-> get[KeyDescription],
                tags |-> OrEmptyList(get[KeyTags]),
                preview_links |-> OrEmptyList(get[KeyPreviewLinks]),
                eta |-> get[KeyEta],
                close_date |-> get[KeyCloseDate],
                publisher |-> get[KeyPublisher],
                pages |-> get[KeyPages],
                ai_fallback |-> BoolV(TRUE)]))))

\* r'^\*?\[?\s*(READY|Remainderbook|Request)\s*\]?\s*[...]?\s*' with
\* re.IGNORECASE; the bracket class holds '-', ':' and the three characters
\* U+00E2, U+20AC, U+201C
MarkerDashes == {"-", ":", "U+00E2", "U+20AC", "U+201C"}
CategoryPrefixPattern ==
    Regex(<<Bol, Cls({"*"}, 0, 1), Cls({"["}, 0, 1), Rep(Spaces, 0),
            Alt(<<<<"R", "E", "A", "D", "Y">>,
                  <<"R", "e", "m", "a", "i", "n", "d", "e", "r", "b", "o", "o", "k">>,
                  <<"R", "e", "q", "u", "e", "s", "t">>>>),
            Rep(Spaces, 0), Cls({"]"}, 0, 1), Rep(Spaces, 0), Cls(MarkerDashes, 0, 1),
            Rep(Spaces, 0)>>,
          <<<<5, 5>>>>, TRUE, FALSE)

AIParser_create_fallback(text, media_count) ==
    Bind(Prefix(FirstLine(Strip(text)), TitleMaxLen), LAMBDA first :
    Bind(ReMatch(CategoryPrefixPattern, first), LAMBDA m :
    Bind(IF m # <<>> THEN Slice(first, MatchEnd(m), Len(first)) ELSE first, LAMBDA cut :
    Bind(Strip(RStripOf(LStripOf(cut, {"*"}), {"*"})), LAMBDA title :
        ParsedBroadcast(
          [raw_text |-> StrV(text),
           media_count |-> IntV(media_count),
           title |-> StrV(title),
           title_en |-> StrV(title),
           description_en |-> StrV(text),
           tags |-> ListV(<<>>),
           preview_links |-> ListV(<<>>),
           ai_fallback |-> BoolV(TRUE)])))))

\* the body of the try statement of parse()
AIParser_parse_try(llm, text, media_count) ==
    IF llm.kind = "raise" THEN Raise("Exception")
    ELSE IF Truthy(llm.error) THEN AIParser_create_fallback(text, media_count)
    ELSE Bind(AIParser_parse_json_response(llm.text), LAMBDA result :
            IF result.raised THEN result
            ELSE IF ~Truthy(result.val) THEN AIParser_create_fallback(text, media_count)
            ELSE IF PyGet(result.val, KeyTitle).raised THEN PyGet(result.val, KeyTitle)
            ELSE AIParser_to_parsed_broadcast(result.val, text, media_count))

\* a variant of parse() without the except clause of lines 101-103
AIParser_parse_uncaught(llm, text, media_count) ==
    AIParser_parse_try(llm, text, media_count)

\* try: ... except Exception: return self._create_fallback(text, media_count)
AIParser_parse(llm, text, media_count) ==
    Bind(AIParser_parse_try(llm, text, media_count), LAMBDA body :
        IF body.raised THEN AIParser_create_fallback(text, media_count) ELSE body)

\* ------------------------------------------------------------------------
\* main.parse_broadcast, the handler of POST /parse
\* ------------------------------------------------------------------------
HTTPException(status) == [raised |-> TRUE, exc |-> "HTTPException", status |-> status]

\* try: return parser.parse(...)  except Exception: raise HTTPException(500)
\* where parser is the module's FGBParser instance
parse_broadcast(patterns, skip_rules, text, media_count) ==
    Bind(FGBParser_parse(patterns, skip_rules, text, media_count), LAMBDA result :
        IF result.raised THEN HTTPException(500) ELSE result)

\* ------------------------------------------------------------------------
\* tests.test_ai_parser.test_littlerazy_parser_incomplete
\* ------------------------------------------------------------------------
\* the attributes class LitterazyParser defines
LitterazyParserAttrs ==
    {"HEADER_PATTERN", "parse", "_clean_title", "_format_eta", "_clean_description",
     "_fallback_parse"}

\* parser.<name>: the attribute lookup that precedes a method call
LitterazyParser_getattr(name) ==
    IF name \in LitterazyParserAttrs THEN Ret(StrV(<<name>>)) ELSE Raise("AttributeError")

\* result = parser.parse(text, media_count); parser.is_complete(result)
test_littlerazy_parser_incomplete(text, media_count) ==
    Bind(LitterazyParser_parse(text, media_count), LAMBDA result :
        IF result.raised THEN result ELSE LitterazyParser_getattr("is_complete"))

\* ------------------------------------------------------------------------
\* Inputs
\* ------------------------------------------------------------------------
MaxLen == 4
MaxShort == 2

FreeChars == {"a", "1", ".", "#"}
SeqsUpTo(set, n) == UNION {[1..k -> set] : k \in 0..n}

\* short texts over the characters the rule tables react to
FreeTexts == SeqsUpTo(FreeChars, MaxLen)
ShortTexts == SeqsUpTo(FreeChars, MaxShort)

\* texts around the supplier's header grammar
\* <title> <binding> <price> ETA <month> <glyphs> <description>
HeaderTitles == {<<"a">>, <<SP, "a", SP, SP, "b">>}
HeaderFormats == {<<"H", "C">>, <<"p", "b">>, <<"X", "X">>}
HeaderPrices == {<<"1", "3", ".", "0", "0", "0">>, <<".">>, <<"1", "0">>}
HeaderMonths == {<<"M", "E", "I">>, <<"x">>}
HeaderGlyphs == {<<CherryBlossom>>, <<Rose, Rose>>, <<>>}
HeaderTails == {<<>>, <<"d">>, <<SP, "d", NL>>}
HeaderTexts ==
    {t \o <<SP>> \o f \o <<SP>> \o p \o <<SP, "E", "T", "A", SP>> \o m \o <<SP>> \o g \o d :
        t \in HeaderTitles, f \in HeaderFormats, p \in HeaderPrices, m \in HeaderMonths,
        g \in HeaderGlyphs, d \in HeaderTails}

MediaCounts == {0, 3}
DefaultConfig == [patterns |-> TableA, skip_rules |-> NoSkip]

\* field names asked of _extract_field: the rule-table keys of parse() and
\* one that no table has
FieldNames == {ParseFields[i][1] : i \in 1..Len(ParseFields)} \cup {"nosuch"}

\* what the generative backend may answer
ResponseTexts ==
    {<<"{", Quote, "t", "i", "t", "l", "e", Quote, ":", Quote, "a", Quote, ",", Quote,
       "t", "y", "p", "e", Quote, ":", "n", "u", "l", "l", ",", Quote, "f", "o", "r", "m",
       "a", "t", Quote, ":", Quote, "h", "c", Quote, ",", Quote, "p", "a", "g", "e", "s",
       Quote, ":", "4", ",", Quote, "p", "r", "i", "c", "e", Quote, ":", "1", "2", "0",
       "0", "0", "0", ",", Quote, "s", "t", "o", "c", "k", Quote, ":", "2", ",", Quote,
       "d", "e", "s", "c", "r", "i", "p", "t", "i", "o", "n", Quote, ":", Quote, "d",
       Quote, ",", Quote, "t", "a", "g", "s", Quote, ":", "[", Quote, "x", Quote, "]", ",",
       Quote, "p", "r", "e", "v", "i", "e", "w", "_", "l", "i", "n", "k", "s", Quote, ":",
       "[", "]", ",", Quote, "e", "t", "a", Quote, ":", "n", "u", "l", "l", ",", Quote,
       "c", "l", "o", "s", "e", "_", "d", "a", "t", "e", Quote, ":", "n", "u", "l", "l",
       ",", Quote, "p", "u", "b", "l", "i", "s", "h", "e", "r", Quote, ":", "n", "u", "l",
       "l", "}">>,
     <<"{", Quote, "t", "i", "t", "l", "e", Quote, ":", Quote, "a", Quote, ",", Quote,
       "p", "r", "i", "c", "e", Quote, ":", Quote, "x", Quote, "}">>,
     <<"{", Quote, "t", "i", "t", "l", "e", Quote, ":", "1", "}">>,
     <<"{", Quote, "f", "o", "r", "m", "a", "t", Quote, ":", "1", "}">>,
     <<"{", Quote, "t", "a", "g", "s", Quote, ":", Quote, "x", Quote, "}">>,
     <<"{", Quote, "t", "a", "g", "s", Quote, ":", "n", "u", "l", "l", ",", Quote, "p",
       "r", "e", "v", "i", "e", "w", "_", "l", "i", "n", "k", "s", Quote, ":", "n", "u",
       "l", "l", "}">>,
     <<"[", "1", "]">>,
     <<"1">>,
     <<"0">>,
     <<"n", "u", "l", "l">>,
     <<Quote, "a", Quote>>,
     <<"{", "}">>,
     <<>>,
     <<"a", "b", "c">>,
     <<"x", SP, "{", Quote, "t", "i", "t", "l", "e", Quote, ":", Quote, "a", Quote, ",",
       Quote, "p", "r", "i", "c", "e", Quote, ":", "1", "}", SP, "y">>,
     <<Backtick, Backtick, Backtick, "j", "s", "o", "n", NL, "{", Quote, "t", "i", "t",
       "l", "e", Quote, ":", Quote, "a", Quote, ",", Quote, "x", Quote, ":", "{", Quote,
       "y", Quote, ":", "1", "}", "}", NL, Backtick, Backtick, Backtick>>}

LLMOutcomes ==
    {LLMRaises,
     LLMResponse(StrV(<<>>), StrV(<<"e", "r", "r">>)),
     LLMResponse(None, None)}
    \cup {LLMResponse(StrV(t), None) : t \in ResponseTexts}

NoLLM == [kind |-> "none"]
NotReturned == [raised |-> FALSE, val |-> None]

\* ------------------------------------------------------------------------
\* State
\* ------------------------------------------------------------------------
VARIABLES
    text,               \* the request's text
    media_count,        \* the request's media_count
    patterns,           \* FGBParser.patterns, loaded at construction
    skip_rules,         \* FGBParser.skip_rules, loaded at construction
    pc,                 \* "idle" before the operation, "done" after it
    op,                 \* the operation that ran
    field_name,         \* the field asked of _extract_field
    llm,                \* the backend's answer to AIParser.parse
    ret,                \* what the operation returned or raised
    llm_calls,          \* calls of router.generate_text so far
    configured,         \* BookResearcher: api_key and search_engine_id are both set
    backend,            \* what the search backend does with the next request
    primary_available,  \* ProviderRouter.primary.is_available()
    fallback_available, \* ProviderRouter.fallback.is_available()
    primary_failures,   \* ProviderRouter._primary_failures
    primary_disabled,   \* ProviderRouter._primary_disabled
    calls,              \* the calls of the router in progress, by task
    primary_log,        \* the outcomes of the requests to the primary, in order
    started,            \* the number of router calls begun so far
    api_keys,           \* GeminiBackupProvider.api_keys
    current_key_idx,    \* GeminiBackupProvider._current_key_idx
    failed_keys,        \* GeminiBackupProvider._failed_keys
    client_api_keys,    \* GeminiClient.api_keys
    failed_combos,      \* GeminiClient._failed_combos
    recorded,           \* the <<key, model>> whose request failed and was recorded
    cover_count,        \* the cover_count given to LayoutEngine
    canvas              \* the canvas_width and canvas_height given to LayoutEngine

\* the state of each service beside the parsers
searchVars == <<configured, backend>>
routerVars == <<primary_available, fallback_available, primary_failures, primary_disabled,
                calls, primary_log, started>>
backupVars == <<api_keys, current_key_idx, failed_keys>>
clientVars == <<client_api_keys, failed_combos, recorded>>
layoutVars == <<cover_count, canvas>>
serviceVars == <<searchVars, routerVars, backupVars, clientVars, layoutVars>>

\* the state of the parsers and of the operation in progress
parserVars == <<text, media_count, patterns, skip_rules, field_name, llm, llm_calls>>

vars == <<text, media_count, patterns, skip_rules, pc, op, field_name, llm, ret, llm_calls,
          configured, backend, primary_available, fallback_available, primary_failures,
          primary_disabled, calls, primary_log, started, api_keys, current_key_idx,
          failed_keys, client_api_keys, failed_combos, recorded, cover_count, canvas>>

\* each service before any of its operations has run
SearchIdle ==
    /\ configured = FALSE
    /\ backend = [kind |-> "none"]

RouterIdle ==
    /\ primary_available = FALSE
    /\ fallback_available = FALSE
    /\ primary_failures = 0
    /\ primary_disabled = FALSE
    /\ calls = <<>>
    /\ primary_log = <<>>
    /\ started = 0

BackupIdle ==
    /\ api_keys = <<>>
    /\ current_key_idx = 0
    /\ failed_keys = {}

ClientIdle ==
    /\ client_api_keys = <<>>
    /\ failed_combos = {}
    /\ recorded = {}

LayoutIdle ==
    /\ cover_count = 0
    /\ canvas = [width |-> 0, height |-> 0]

ServicesIdle ==
    /\ SearchIdle
    /\ RouterIdle
    /\ BackupIdle
    /\ ClientIdle
    /\ LayoutIdle

Idle ==
    /\ ServicesIdle
    /\ pc = "idle"
    /\ op = "none"
    /\ field_name = "none"
    /\ llm = NoLLM
    /\ ret = NotReturned
    /\ llm_calls = 0

Init ==
    /\ \/ text \in HeaderTexts /\ patterns = TableA /\ skip_rules = NoSkip
       \/ /\ text \in ShortTexts
          /\ \E c \in Configs : patterns = c.patterns /\ skip_rules = c.skip_rules
    /\ media_count \in MediaCounts
    /\ Idle

Finish(name, outcome) ==
    /\ pc = "idle"
    /\ pc' = "done"
    /\ op' = name
    /\ ret' = outcome
    /\ UNCHANGED <<text, media_count, patterns, skip_rules>>
    /\ UNCHANGED serviceVars

FGBParse ==
    /\ Finish("FGBParser.parse", FGBParser_parse(patterns, skip_rules, text, media_count))
    /\ UNCHANGED <<field_name, llm, llm_calls>>

LitterazyParse ==
    /\ Finish("LitterazyParser.parse", LitterazyParser_parse(text, media_count))
    /\ UNCHANGED <<field_name, llm, llm_calls>>

AIParse ==
    \E answer \in LLMOutcomes :
        /\ Finish("AIParser.parse", AIParser_parse(answer, text, media_count))
        /\ llm' = answer
        /\ llm_calls' = llm_calls + 1
        /\ UNCHANGED field_name

ParseRequest ==
    /\ Finish("parse_broadcast", parse_broadcast(patterns, skip_rules, text, media_count))
    /\ UNCHANGED <<field_name, llm, llm_calls>>

IsCompleteCall ==
    /\ Finish("is_complete", test_littlerazy_parser_incomplete(text, media_count))
    /\ UNCHANGED <<field_name, llm, llm_calls>>

ExtractField ==
    \E f \in FieldNames :
        /\ Finish("FGBParser._extract_field",
                  FGBParser_extract_field(patterns, skip_rules, text, f))
        /\ field_name' = f
        /\ UNCHANGED <<llm, llm_calls>>

Next ==
    \/ FGBParse
    \/ LitterazyParse
    \/ AIParse
    \/ ParseRequest
    \/ IsCompleteCall

Spec == Init /\ [][Next]_vars

\* the rule engine alone: every text up to MaxLen under every rule table
InitRules ==
    /\ text \in FreeTexts
    /\ \E c \in Configs : patterns = c.patterns /\ skip_rules = c.skip_rules
    /\ media_count = 0
    /\ Idle

NextRules ==
    \/ ExtractField
    \/ FGBParse

SpecRules == InitRules /\ [][NextRules]_vars

\* ------------------------------------------------------------------------
\* Properties
\* ------------------------------------------------------------------------
ParserTiers == {"FGBParser.parse", "LitterazyParser.parse", "AIParser.parse"}
RuleBasedTiers == {"FGBParser.parse", "LitterazyParser.parse"}

\* C1: the record any parser tier returns has raw_text equal to the input
\* string, unchanged, and media_count equal to the caller's value.
C1_RawTextPreserved ==
    pc = "done" /\ op \in ParserTiers /\ ~ret.raised =>
        /\ ret.val.raw_text = StrV(text)
        /\ ret.val.media_count = IntV(media_count)

\* the supplier parser took its fallback path on a text that stripping
\* would change, with a media count other than the default
C1_FallbackKeepsWhitespace ==
    /\ pc = "done" /\ op = "LitterazyParser.parse" /\ ~ret.raised
    /\ Strip(text) # text
    /\ ReMatch(HEADER_PATTERN, Strip(text)) = <<>>
    /\ ret.val.raw_text = StrV(text)
    /\ media_count = 3 /\ ret.val.media_count = IntV(3)

\* the record _create_fallback documents: the text as raw_text and as
\* description, empty lists, and no other field but the title
IsMinimalRecord(rec) ==
    /\ rec.raw_text = StrV(text)
    /\ rec.description_en = StrV(text)
    /\ rec.title_en = rec.title
    /\ rec.tags = ListV(<<>>) /\ rec.preview_links = ListV(<<>>)
    /\ \A f \in ModelFields \ {"raw_text", "description_en", "title", "title_en", "tags",
                               "preview_links", "media_count"} : rec[f] = None

\* the backend's answer cannot be turned into a record: the call raised, the
\* response reports an error, handling the response raised, or no JSON
\* object was found in it
UnusableAnswer ==
    \/ llm.kind = "raise"
    \/ Truthy(llm.error)
    \/ AIParser_parse_try(llm, text, media_count).raised
    \/ ~Truthy(AIParser_parse_json_response(llm.text).val)

\* C2: AIParser.parse never raises: whatever the backend answers it returns
\* a record, and the minimal record whenever the answer is unusable.
C2_AIParserNeverRaises ==
    pc = "done" /\ op = "AIParser.parse" =>
        /\ ~ret.raised
        /\ DOMAIN ret.val = ModelFields
        /\ UnusableAnswer => IsMinimalRecord(ret.val)

\* the backend answered with JSON whose handling raised inside the try body,
\* and parse() returned the minimal record
C2_RaisedInsideTry ==
    /\ pc = "done" /\ op = "AIParser.parse"
    /\ llm.kind = "response" /\ ~Truthy(llm.error) /\ Truthy(llm.text)
    /\ ~AIParser_parse_json_response(llm.text).raised
    /\ AIParser_parse_try(llm, text, media_count).raised
    /\ ~ret.raised /\ IsMinimalRecord(ret.val)

\* C3: a parse request returns a record for every input text and never
\* surfaces an error to its caller.
C3_PipelineTotal ==
    pc = "done" /\ op = "parse_broadcast" => ~ret.raised

\* a record lacks a title or a price_main
Incomplete(rec) == ~Truthy(rec.title) \/ rec.price_main = None

\* C4: a parse request calls the generative backend exactly when the
\* rule-based record is incomplete.
C4_TierEscalation ==
    (pc = "done" /\ op = "parse_broadcast" /\ ~ret.raised) =>
        (llm_calls > 0 <=> Incomplete(ret.val))

\* C5: reading ai_fallback on a record of AIParser.parse gives True; on a
\* record of a rule-based parser it does not.
C5_AiFallbackReadable ==
    pc = "done" /\ ~ret.raised =>
        /\ op = "AIParser.parse" => GetAttr(ret.val, "ai_fallback") = Ret(BoolV(TRUE))
        /\ op \in RuleBasedTiers => GetAttr(ret.val, "ai_fallback") # Ret(BoolV(TRUE))

\* C6: is_complete on the supplier parser returns True exactly for a record
\* with a non-empty title and a price_main.
C6_IsCompleteCriterion ==
    (pc = "done" /\ op = "is_complete" /\ ~LitterazyParser_parse(text, media_count).raised)
        => ret = Ret(BoolV(~Incomplete(LitterazyParser_parse(text, media_count).val)))

\* C7: LitterazyParser.parse returns a record for every input string.
C7_LitterazyNeverThrows ==
    pc = "done" /\ op = "LitterazyParser.parse" => ~ret.raised

\* the rules of the field asked for, and those whose regex matches the text
FieldRules == DictGet(patterns, field_name, <<>>)
RuleMatches(rule, s) ==
    IF rule.multi THEN ReFindAll(rule.regex, s) # <<>> ELSE ReSearch(rule.regex, s) # <<>>
MatchingRules == {i \in 1..Len(FieldRules) : RuleMatches(FieldRules[i], text)}
Skipped == DictGet(skip_rules, field_name, FALSE)

\* C8: _extract_field gives None for a skipped field, for a field the rule
\* table does not have and for a field none of whose rules matches;
\* otherwise it gives what the first matching rule, in declared order,
\* extracts.
C8_FirstMatchingRuleWins ==
    pc = "done" /\ op = "FGBParser._extract_field" =>
        IF Skipped \/ field_name \notin DOMAIN patterns \/ MatchingRules = {}
        THEN ret = Ret(None)
        ELSE ret = RuleOutcome(FieldRules[SetMin(MatchingRules)], text).out

\* two rules of the field match and extract different values, and the value
\* of the earlier one was returned
C8_TwoRulesMatch ==
    /\ pc = "done" /\ op = "FGBParser._extract_field"
    /\ ~Skipped /\ ~ret.raised /\ ret.val # None
    /\ \E i, j \in MatchingRules :
          /\ i < j
          /\ ret = RuleOutcome(FieldRules[i], text).out
          /\ ret # RuleOutcome(FieldRules[j], text).out

\* the transform of a matching single-match rule cannot parse the capture
TransformFails(rule, s) ==
    /\ ~rule.multi /\ rule.transform = RemoveSeparators
    /\ ReSearch(rule.regex, s) # <<>>
    /\ rule.group \in 0..NumGroups(rule.regex)
    /\ PyInt(RemoveChar(RemoveChar(
           GroupText(rule.regex, s, ReSearch(rule.regex, s), rule.group), "."), ",")).raised
UsableRules == {i \in MatchingRules : ~TransformFails(FieldRules[i], text)}

\* C9: a matching rule whose transform cannot parse the capture counts as a
\* non-match: _extract_field gives what the first usable rule extracts, or
\* None, and neither it nor parse raises ValueError.
C9_TransformFailureSkipsRule ==
    /\ (pc = "done" /\ op = "FGBParser._extract_field" /\ ~Skipped
           /\ UsableRules # MatchingRules)
        => ret = (IF UsableRules = {} THEN Ret(None)
                  ELSE RuleOutcome(FieldRules[SetMin(UsableRules)], text).out)
    /\ (pc = "done" /\ op = "FGBParser.parse") => ~(ret.raised /\ ret.exc = "ValueError")

\* the non-overlapping matches of re in s from position p on, left to right
RECURSIVE AllMatches(_, _, _)
AllMatches(re, s, p) ==
    IF SearchFrom(re, s, p) = <<>> THEN <<>>
    ELSE <<SearchFrom(re, s, p)>>
         \o AllMatches(re, s, IF MatchEnd(SearchFrom(re, s, p)) > MatchStart(SearchFrom(re, s, p))
                              THEN MatchEnd(SearchFrom(re, s, p))
                              ELSE MatchEnd(SearchFrom(re, s, p)) + 1)

\* the text of group g of every match
GroupCaptures(re, s, g) ==
    [i \in 1..Len(AllMatches(re, s, 1)) |-> StrV(GroupText(re, s, AllMatches(re, s, 1)[i], g))]

\* C10: when the first matching rule is a multi rule with group g, and the
\* pattern has a group g, _extract_field gives the list of the group-g
\* texts of all matches, in order.
C10_MultiReturnsGroupCaptures ==
    (/\ pc = "done" /\ op = "FGBParser._extract_field" /\ ~Skipped
     /\ MatchingRules # {}
     /\ FieldRules[SetMin(MatchingRules)].multi
     /\ FieldRules[SetMin(MatchingRules)].group
           \in 0..NumGroups(FieldRules[SetMin(MatchingRules)].regex))
    => ret = Ret(ListV(GroupCaptures(FieldRules[SetMin(MatchingRules)].regex, text,
                                     FieldRules[SetMin(MatchingRules)].group)))

\* the numeric attributes of the spec's record
NumericFields == {"price_main", "price_secondary", "pages", "stock"}
IsNoneOrInt(out) == ~out.raised /\ out.val.t \in {"None", "int"}

\* C11: on every record a parser tier returns, reading price_main,
\* price_secondary, pages or stock gives None or an integer.
C11_NumericFieldsNoneOrInt ==
    (pc = "done" /\ op \in ParserTiers /\ ~ret.raised) =>
        \A f \in NumericFields : IsNoneOrInt(GetAttr(ret.val, f))

\* the part of C11 about the two declared price fields
PricesNoneOrInt ==
    (pc = "done" /\ op \in ParserTiers /\ ~ret.raised) =>
        \A f \in IntFields : IsNoneOrInt(GetAttr(ret.val, f))

\* the binding code of a token: the code of the alias table for a known
\* alias in any letter case, the token itself otherwise
CanonicalFormat(token) == FormatMapGet(StrLower(token), token)

\* the binding token the header pattern captured, and the one the backend's
\* JSON object holds
HeaderMatch == ReMatch(HEADER_PATTERN, Strip(text))
HeaderFormatToken == GroupText(HEADER_PATTERN, Strip(text), HeaderMatch, GroupFormat)
AnswerFormat == PyGet(AIParser_parse_json_response(llm.text).val, KeyFormat).val

\* C12: the format of a record is the binding code of the input's binding
\* token, in the fixed-grammar tier and in the generative tier alike.
C12_FormatNormalised ==
    /\ (pc = "done" /\ op = "LitterazyParser.parse" /\ ~ret.raised /\ HeaderMatch # <<>>)
        => ret.val.format = StrV(CanonicalFormat(HeaderFormatToken))
    /\ (pc = "done" /\ op = "AIParser.parse" /\ ~UnusableAnswer /\ AnswerFormat.t = "str"
           /\ Truthy(AnswerFormat))
        => ret.val.format = StrV(CanonicalFormat(AnswerFormat.s))

\* ------------------------------------------------------------------------
\* The ETA formatter alone: every month token in every letter case
\* ------------------------------------------------------------------------
\* the twelve months as <<Indonesian abbreviation, English abbreviation>>
MonthAbbrevs ==
    <<<<<<"J", "A", "N">>, <<"J", "A", "N">>>>, <<<<"F", "E", "B">>, <<"F", "E", "B">>>>,
      <<<<"M", "A", "R">>, <<"M", "A", "R">>>>, <<<<"A", "P", "R">>, <<"A", "P", "R">>>>,
      <<<<"M", "E", "I">>, <<"M", "A", "Y">>>>, <<<<"J", "U", "N">>, <<"J", "U", "N">>>>,
      <<<<"J", "U", "L">>, <<"J", "U", "L">>>>, <<<<"A", "G", "U">>, <<"A", "U", "G">>>>,
      <<<<"S", "E", "P">>, <<"S", "E", "P">>>>, <<<<"O", "K", "T">>, <<"O", "C", "T">>>>,
      <<<<"N", "O", "V">>, <<"N", "O", "V">>>>, <<<<"D", "E", "S">>, <<"D", "E", "C">>>>>>

\* a three-letter token in every mix of upper and lower case
BothCases(c) == {Lower(c), Upper(c)}
CaseVariants(s) ==
    {<<a, b, c>> : a \in BothCases(s[1]), b \in BothCases(s[2]), c \in BothCases(s[3])}

UnknownMonths == {<<>>, <<"x">>, <<"M", "e", "i", "x">>, <<"S", "e", "p", "t">>, <<"1", "2">>}
MonthTokens ==
    UNION {CaseVariants(MonthAbbrevs[i][j]) : i \in 1..Len(MonthAbbrevs), j \in 1..2}
    \cup UnknownMonths

FormatEta ==
    /\ Finish("LitterazyParser._format_eta", Ret(StrV(LitterazyParser_format_eta(text))))
    /\ UNCHANGED <<field_name, llm, llm_calls>>

InitEta ==
    /\ text \in MonthTokens
    /\ patterns = TableA /\ skip_rules = NoSkip
    /\ media_count = 0
    /\ Idle

NextEta == FormatEta

SpecEta == InitEta /\ [][NextEta]_vars

\* the months whose Indonesian or English abbreviation the token is
MonthsOf(token) ==
    {i \in 1..Len(MonthAbbrevs) :
        StrUpper(token) \in {MonthAbbrevs[i][1], MonthAbbrevs[i][2]}}

\* C13: a month's Indonesian and English abbreviations, in any letter case,
\* are formatted alike; any other token is returned unchanged, followed by
\* the year suffix.
C13_EtaAgreesWithReference ==
    (pc = "done" /\ op = "LitterazyParser._format_eta") =>
        IF MonthsOf(text) # {}
        THEN \A i \in MonthsOf(text) :
                ret = Ret(StrV(LitterazyParser_format_eta(MonthAbbrevs[i][2])))
        ELSE ret = Ret(StrV(text \o YearSuffix))

\* ------------------------------------------------------------------------
\* The description extractor over broadcasts with separator runs, price
\* lines, 'Preview' markers and links
\* ------------------------------------------------------------------------
PriceLabel == <<LabelGlyph, VariationSelector>>
PreviewWord == <<"P", "r", "e", "v", "i", "e", "w">>
HttpPrefix == <<"h", "t", "t", "p", ":", "/", "/">>
HttpsPrefix == <<"h", "t", "t", "p", "s", ":", "/", "/">>

\* what precedes the place the description starts at: nothing, a title line,
\* or a price line followed by the description itself
DescHeads ==
    {<<>>, <<"a", NL>>, PriceLabel \o <<SP, "1", NL, "c", SP, "d", NL>>}
DescMarks ==
    {<<>>, <<TreeGlyph, TreeGlyph>>, <<FoxGlyph, TreeGlyph, TreeGlyph>>, <<TreeGlyph>>,
     PriceLabel \o <<"1", NL>>, PriceLabel \o <<"1">>}
DescBodies == {<<>>, <<"b">>, <<SP, "*", "b", "_", SP, SP, "c", NL>>}
DescEnds ==
    {<<>>, PreviewWord, <<"_", "p", "r", "e", "v", "i", "e", "w", ":", "_", SP, "x">>,
     HttpPrefix \o <<"x">>, <<"*", SP>> \o HttpsPrefix \o <<"x">>,
     PreviewWord \o <<":", SP>> \o HttpPrefix \o <<"x">>,
     HttpPrefix \o <<"x", SP>> \o PreviewWord,
     <<"H", "T", "T", "P", ":", "/", "/">>}
DescTexts ==
    {h \o m \o b \o e : h \in DescHeads, m \in DescMarks, b \in DescBodies, e \in DescEnds}

ExtractDescription ==
    /\ Finish("FGBParser._extract_description", Ret(StrV(FGBParser_extract_description(text))))
    /\ UNCHANGED <<field_name, llm, llm_calls>>

InitDesc ==
    /\ text \in DescTexts
    /\ patterns = TableA /\ skip_rules = NoSkip
    /\ media_count = 0
    /\ Idle

NextDesc ==
    \/ ExtractDescription
    \/ FGBParse

SpecDesc == InitDesc /\ [][NextDesc]_vars

\* word occurs in s at index i; with fold, letter case is ignored
OccursAt(s, i, word, fold) ==
    /\ i + Len(word) - 1 <= Len(s)
    /\ IF fold THEN StrLower(SubSeq(s, i, i + Len(word) - 1)) = StrLower(word)
       ELSE SubSeq(s, i, i + Len(word) - 1) = word

SeparatorGlyphs == {TreeGlyph, FoxGlyph}
\* indices at which a run of at least two separator glyphs begins
SeparatorStarts(s) ==
    {i \in 1..(Len(s) - 1) : s[i] \in SeparatorGlyphs /\ s[i + 1] \in SeparatorGlyphs}
PriceLineStarts(s) == {i \in 1..Len(s) : OccursAt(s, i, PriceLabel, FALSE)}

\* index of the first character after the run of glyphs of set that begins at i
RunEnd(s, i, set) ==
    SetMin({j \in (i + 1)..(Len(s) + 1) : j = Len(s) + 1 \/ s[j] \notin set})
\* index of the first character after the line that index i lies in
LineEnd(s, i) ==
    SetMin({j \in (i + 1)..(Len(s) + 1) : j = Len(s) + 1 \/ s[j - 1] = NL})

\* where the description starts: after the first separator run, else after
\* the first price line
DescStart(s) ==
    IF SeparatorStarts(s) # {} THEN RunEnd(s, SetMin(SeparatorStarts(s)), SeparatorGlyphs)
    ELSE LineEnd(s, SetMin(PriceLineStarts(s)) + 1)

PreviewStarts(s) == {i \in 1..Len(s) : OccursAt(s, i, PreviewWord, TRUE)}
LinkStarts(s) ==
    {i \in 1..Len(s) : OccursAt(s, i, HttpPrefix, FALSE) \/ OccursAt(s, i, HttpsPrefix, FALSE)}
\* where the description ends: the earliest marker or link at or after from
DescEnd(s, from) ==
    SetMin({i \in PreviewStarts(s) \cup LinkStarts(s) : i >= from} \cup {Len(s) + 1})

\* emphasis marks removed, whitespace runs collapsed, ends trimmed
Cleaned(s) == Strip(SubRuns(SubRuns(Strip(s), {"*", "_"}, 1, <<>>), Spaces, 1, <<SP>>))

DescriptionCalled == pc = "done" /\ op = "FGBParser._extract_description"

C14_SeparatorThenPreview ==
    /\ DescriptionCalled
    /\ SeparatorStarts(text) # {}
    /\ \E p \in PreviewStarts(text) : p >= DescStart(text) /\ \A l \in LinkStarts(text) : p < l
    /\ LinkStarts(text) # {}
    /\ ret.val.s # <<>>

Contains(s, part) == \E i \in 1..(Len(s) + 1) : OccursAt(s, i, part, FALSE)

\* the text has a price line and ends with its first separator run, which
\* stands on a line of its own
TrailingSeparator(s) ==
    /\ PriceLineStarts(s) # {} /\ SeparatorStarts(s) # {}
    /\ SetMin(PriceLineStarts(s)) < SetMin(SeparatorStarts(s))
    /\ RunEnd(s, SetMin(SeparatorStarts(s)), SeparatorGlyphs) = Len(s) + 1
    /\ s[SetMin(SeparatorStarts(s)) - 1] = NL
\* the lines between the price line and the trailing separator
DescriptionBefore(s) ==
    Cleaned(Slice(s, LineEnd(s, SetMin(PriceLineStarts(s)) + 1), SetMin(SeparatorStarts(s)) - 1))

\* C15: when the description stands between the price line and a separator
\* run that is the last line of the broadcast, the record FGBParser.parse
\* returns holds that description in description_en.
C15_DescriptionBeforeSeparator ==
    (/\ pc = "done" /\ op = "FGBParser.parse" /\ ~ret.raised
     /\ TrailingSeparator(text) /\ DescriptionBefore(text) # <<>>)
        => /\ ret.val.description_en.t = "str"
           /\ Contains(ret.val.description_en.s, DescriptionBefore(text))

\* the part of the first line before its first header flower
BeforeFlower(line) ==
    Slice(line, 1, SetMin({i \in 1..Len(line) : line[i] \in HeaderFlowers} \cup {Len(line) + 1}) - 1)
FallbackPriceMatch == ReSearch(FallbackPricePattern, text)
FallbackTaken ==
    pc = "done" /\ op = "LitterazyParser.parse" /\ ~ret.raised /\ HeaderMatch = <<>>

\* C16: when the header does not match, the title is the part of the first
\* line before the first of the seven flowers the header accepts (absent when
\* that part is blank), price_main is the first numeral of the form 130.000
\* (absent when there is none), and the description is the whole input.
C16_FallbackFields ==
    FallbackTaken =>
        /\ ret.val.title =
              IF Strip(BeforeFlower(FirstLine(Strip(text)))) = <<>> THEN None
              ELSE StrV(Strip(BeforeFlower(FirstLine(Strip(text)))))
        /\ ret.val.price_main =
              IF FallbackPriceMatch = <<>> THEN None
              ELSE PyInt(GroupText(FallbackPricePattern, text, FallbackPriceMatch, 1)
                         \o GroupText(FallbackPricePattern, text, FallbackPriceMatch, 2)).val
        /\ ret.val.description_en = StrV(text)

\* the contents of the fenced block of the backend's answer, parsed
FencedObject ==
    Bind(Strip(llm.text.s), LAMBDA t :
        JsonLoads(GroupText(CodeBlockPattern, t, ReSearch(CodeBlockPattern, t), 1)))
HasNestedObject(d) == \E i \in 1..Len(d.items) : d.items[i][2].t = "dict"
\* the answer is a fenced block that holds a JSON object with an object in it
FencedNestedAnswer ==
    /\ pc = "done" /\ op = "AIParser.parse"
    /\ llm.kind = "response" /\ ~Truthy(llm.error) /\ llm.text.t = "str"
    /\ ReSearch(CodeBlockPattern, Strip(llm.text.s)) # <<>>
    /\ ~FencedObject.raised /\ FencedObject.val.t = "dict"
    /\ HasNestedObject(FencedObject.val)

\* C17: the answer is parsed as a whole, then as its first brace-delimited
\* substring, then as the contents of its fenced block; an answer whose
\* fenced block holds an object with a nested object yields that whole
\* object, so the record carries its title.
C17_FencedObjectWhole ==
    FencedNestedAnswer =>
        /\ AIParser_parse_json_response(llm.text) = Ret(FencedObject.val)
        /\ ret = AIParser_to_parsed_broadcast(FencedObject.val, text, media_count)

\* ------------------------------------------------------------------------
\* The minimal record of AIParser over first lines with category markers
\* ------------------------------------------------------------------------
MarkerReady == <<"R", "E", "A", "D", "Y">>
MarkerRemainder == <<"R", "e", "m", "a", "i", "n", "d", "e", "r", "b", "o", "o", "k">>
MarkerRequest == <<"R", "e", "q", "u", "e", "s", "t">>
CategoryMarkers == {MarkerReady, MarkerRemainder, MarkerRequest}

MarkerTexts ==
    {<<>>, <<"a">>, <<SP, "*", "*", "a", SP, "b", "*", SP, NL, "c">>,
     MarkerReady \o <<SP, "a">>,
     <<"*", "[">> \o MarkerReady \o <<"]", SP, "-", SP, "a", "*">>,
     StrLower(MarkerRequest) \o <<":", SP, "a", NL, "b">>,
     MarkerRemainder \o <<SP, "-", SP, "a", SP, "(", "x", ")">>,
     MarkerReady \o <<SP>> \o MarkerRequest \o <<SP, "a">>,
     MarkerReady \o <<":", SP>> \o MarkerRemainder \o <<":", SP, "a">>,
     <<"[">> \o MarkerReady \o <<"]", "[">> \o MarkerRequest \o <<"]", SP, "a">>,
     <<"a", SP>> \o MarkerReady,
     MarkerRequest}

InitFallback ==
    /\ text \in MarkerTexts
    /\ patterns = TableA /\ skip_rules = NoSkip
    /\ media_count = 0
    /\ Idle

NextFallback == AIParse

SpecFallback == InitFallback /\ [][NextFallback]_vars

BeginsWithMarker(s) == \E m \in CategoryMarkers : OccursAt(s, 1, m, TRUE)

\* C18: when the backend fails, the title of the record AIParser.parse
\* returns is text and does not begin with READY, Remainderbook or Request in
\* any letter case.
C18_TitleWithoutMarkers ==
    (pc = "done" /\ op = "AIParser.parse" /\ UnusableAnswer) =>
        /\ ~ret.raised /\ ret.val.title.t = "str"
        /\ ~BeginsWithMarker(ret.val.title.s)

\* ------------------------------------------------------------------------
\* book_researcher.BookResearcher._clean_title
\* ------------------------------------------------------------------------
\* '.', and the class [-|en dash] of the site and split patterns
AnyChar == Chars \ {NL}
DashPipe == {"-", "|", EnDash}

\* r':?\s*Amazon\.co\.uk:?\s*:?\s*Books?\s*$'
AmazonUkBooks ==
    Regex(<<Cls({":"}, 0, 1), Rep(Spaces, 0),
            Lit(<<"A", "m", "a", "z", "o", "n", ".", "c", "o", ".", "u", "k">>),
            Cls({":"}, 0, 1), Rep(Spaces, 0), Cls({":"}, 0, 1), Rep(Spaces, 0),
            Lit(<<"B", "o", "o", "k">>), Cls({"s"}, 0, 1), Rep(Spaces, 0), Eol>>,
          <<>>, TRUE, FALSE)

\* r':?\s*Amazon\.com:?\s*:?\s*Books?\s*$'
AmazonComBooks ==
    Regex(<<Cls({":"}, 0, 1), Rep(Spaces, 0),
            Lit(<<"A", "m", "a", "z", "o", "n", ".", "c", "o", "m">>), Cls({":"}, 0, 1),
            Rep(Spaces, 0), Cls({":"}, 0, 1), Rep(Spaces, 0),
            Lit(<<"B", "o", "o", "k">>), Cls({"s"}, 0, 1), Rep(Spaces, 0), Eol>>,
          <<>>, TRUE, FALSE)

\* r':?\s*Amazon\.[a-z.]+.*$'
AmazonAny ==
    Regex(<<Cls({":"}, 0, 1), Rep(Spaces, 0), Lit(<<"A", "m", "a", "z", "o", "n", ".">>),
            Rep(LowerLetters \cup {"."}, 1), Rep(AnyChar, 0), Eol>>,
          <<>>, TRUE, FALSE)

amazon_patterns == <<AmazonUkBooks, AmazonComBooks, AmazonAny>>

\* r'^([A-Z][a-z]+(?:\s+[A-Z][a-z]+)+)\s+on\s+(.+)$'
OnPattern ==
    Regex(<<Bol, Cls(UpperLetters, 1, 1), Rep(LowerLetters, 1),
            RepGroup(<<Rep(Spaces, 1), Cls(UpperLetters, 1, 1), Rep(LowerLetters, 1)>>),
            Rep(Spaces, 1), Lit(<<"o", "n">>), Rep(Spaces, 1), Rep(AnyChar, 1), Eol>>,
          <<<<2, 4>>, <<8, 8>>>>, FALSE, FALSE)

\* r'\s+is\s+a\s+children\'?s?\s+(?:picture\s+)?book.*$'
ChildrensBook ==
    Regex(<<Rep(Spaces, 1), Lit(<<"i", "s">>), Rep(Spaces, 1), Lit(<<"a">>),
            Rep(Spaces, 1), Lit(<<"c", "h", "i", "l", "d", "r", "e", "n">>),
            Cls({"'"}, 0, 1), Cls({"s"}, 0, 1), Rep(Spaces, 1),
            OptGroup(<<Lit(<<"p", "i", "c", "t", "u", "r", "e">>), Rep(Spaces, 1)>>),
            Lit(<<"b", "o", "o", "k">>), Rep(AnyChar, 0), Eol>>,
          <<>>, TRUE, FALSE)

\* r'\s+is\s+a\s+(?:picture\s+)?book.*$'
PlainBook ==
    Regex(<<Rep(Spaces, 1), Lit(<<"i", "s">>), Rep(Spaces, 1), Lit(<<"a">>),
            Rep(Spaces, 1),
            OptGroup(<<Lit(<<"p", "i", "c", "t", "u", "r", "e">>), Rep(Spaces, 1)>>),
            Lit(<<"b", "o", "o", "k">>), Rep(AnyChar, 0), Eol>>,
          <<>>, TRUE, FALSE)

descriptor_patterns == <<ChildrensBook, PlainBook>>

\* r'\s*[-|en dash]\s*' followed by the site name and '.*$'

SitePattern(name) ==
    Regex(<<Rep(Spaces, 0), Cls(DashPipe, 1, 1), Rep(Spaces, 0)>> \o name
          \o <<Rep(AnyChar, 0), Eol>>, <<>>, TRUE, FALSE)

site_patterns ==
    <<SitePattern(<<Lit(<<"A", "m", "a", "z", "o", "n", ".", "c", "o", "m">>)>>),
      SitePattern(<<Lit(<<"A", "m", "a", "z", "o", "n", ".", "c", "o", ".", "u", "k">>)>>),
      SitePattern(<<Lit(<<"G", "o", "o", "d", "r", "e", "a", "d", "s">>)>>),
      SitePattern(<<Lit(<<"B", "a", "r", "n", "e", "s">>), Rep(Spaces, 0),
                    Cls({"&", "+"}, 1, 1), Rep(Spaces, 0),
                    Lit(<<"N", "o", "b", "l", "e">>)>>),
      SitePattern(<<Lit(<<"G", "o", "o", "g", "l", "e", SP, "B", "o", "o", "k", "s">>)>>),
      SitePattern(<<Lit(<<"W", "a", "t", "e", "r", "s", "t", "o", "n", "e", "s">>)>>),
      SitePattern(<<
                    Lit(<<"B", "o", "o", "k", SP, "D", "e", "p", "o", "s", "i", "t", "o", "r", "y">>)>>),
      SitePattern(<<Lit(<<"T", "h", "e">>), Rep(Spaces, 1), Rep(WordChars, 1),
                    Rep(Spaces, 1), Lit(<<"P", "r", "i", "z", "e">>)>>),
      SitePattern(<<Rep(WordChars, 1), Rep(Spaces, 1), Lit(<<"P", "r", "i", "z", "e">>)>>),
      Regex(<<Rep(Spaces, 0), Lit(<<"|">>), Rep(Spaces, 0),
              Lit(<<"O", "f", "f", "i", "c", "i", "a", "l">>), Rep(AnyChar, 0), Eol>>,
            <<>>, TRUE, FALSE)>>

\* r':\s*\d+\s*:'
EditionPattern ==
    Regex(<<Lit(<<":">>), Rep(Spaces, 0), Rep(Digits, 1), Rep(Spaces, 0), Lit(<<":">>)>>,
          <<>>, FALSE, FALSE)

\* r':\s*(?:Vol\.?\s*)?\d+\s*$'
VolumePattern ==
    Regex(<<Lit(<<":">>), Rep(Spaces, 0),
            OptGroup(<<Lit(<<"V", "o", "l">>), Cls({"."}, 0, 1), Rep(Spaces, 0)>>),
            Rep(Digits, 1), Rep(Spaces, 0), Eol>>,
          <<>>, TRUE, FALSE)

\* r'^(.+?):\s*([A-Z][a-z]+(?:\s+[A-Z][a-z]+)?),\s*([A-Z][a-z]+)'
AuthorColonPattern ==
    Regex(<<Bol, LazyRep(AnyChar, 1), Lit(<<":">>), Rep(Spaces, 0),
            Cls(UpperLetters, 1, 1), Rep(LowerLetters, 1),
            OptGroup(<<Rep(Spaces, 1), Cls(UpperLetters, 1, 1), Rep(LowerLetters, 1)>>),
            Lit(<<",">>), Rep(Spaces, 0), Cls(UpperLetters, 1, 1), Rep(LowerLetters, 1)>>,
          <<<<2, 2>>, <<5, 7>>, <<10, 11>>>>, FALSE, FALSE)

\* r'^(.+?)\s+by\s+[A-Z]'
ByPattern ==
    Regex(<<Bol, LazyRep(AnyChar, 1), Rep(Spaces, 1), Lit(<<"b", "y">>), Rep(Spaces, 1),
            Cls(UpperLetters, 1, 1)>>,
          <<<<2, 2>>>>, TRUE, FALSE)

\* r'\s*[-|en dash]\s*'
DashSplitPattern ==
    Regex(<<Rep(Spaces, 0), Cls(DashPipe, 1, 1), Rep(Spaces, 0)>>,
          <<>>, FALSE, FALSE)

\* r'[\s:|\-en dash]+$' and r'^[\s:|\-en dash]+'
EdgePunct == Spaces \cup DashPipe \cup {":"}
TrailingPunct == Regex(<<Rep(EdgePunct, 1), Eol>>, <<>>, FALSE, FALSE)
LeadingPunct == Regex(<<Bol, Rep(EdgePunct, 1)>>, <<>>, FALSE, FALSE)


\* Body applied to the value of v: a statement's right-hand side is
\* evaluated before the statements that follow it
Then(v, Body(_)) == [x \in {v} |-> Body(x)][v]

\* the for loops of lines 78, 91 and 107: re.sub(pattern, '', title) for each
\* pattern in turn
RECURSIVE RemoveAll(_, _, _)
RemoveAll(pattern_list, title, i) ==
    IF i > Len(pattern_list) THEN title
    ELSE Then(ReSub(pattern_list[i], <<>>, title), LAMBDA t :
            RemoveAll(pattern_list, t, i + 1))

\* title = group g of re.match(re, title) when it matches
GroupIfMatch(re, title, g) ==
    Bind(ReMatch(re, title), LAMBDA m :
        IF m # <<>> THEN GroupText(re, title, m, g) ELSE title)

\* str.split(): the runs of non-blank characters
RECURSIVE PySplit(_)
PySplit(s) ==
    Bind(LStripOf(s, Spaces), LAMBDA t :
        IF t = <<>> THEN <<>>
        ELSE Bind(SetMin({i \in 1..Len(t) : t[i] \in Spaces} \cup {Len(t) + 1}), LAMBDA e :
                <<Slice(t, 1, e - 1)>> \o PySplit(Slice(t, e, Len(t)))))

\* str.islower(): some cased character and no upper-case one
IsLower(s) ==
    /\ \E i \in 1..Len(s) : s[i] \in LowerLetters
    /\ \A i \in 1..Len(s) : s[i] \notin UpperLetters

\* w[0].isupper() and len(w) > 1 and w[1:].islower()
Capitalised(w) == w[1] \in UpperLetters /\ Len(w) > 1 /\ IsLower(Slice(w, 2, Len(w)))

\* steps 0 to 6 (lines 69-123): suffixes, descriptors, site names, volume
\* numbers and authors removed
TitleBeforeDashes(raw_title) ==
    Then(Strip(raw_title), LAMBDA title :
    Then(RemoveAll(amazon_patterns, title, 1), LAMBDA step0 :
    Then(GroupIfMatch(OnPattern, step0, 2), LAMBDA step1 :
    Then(RemoveAll(descriptor_patterns, step1, 1), LAMBDA step2 :
    Then(RemoveAll(site_patterns, step2, 1), LAMBDA step3 :
    Then(ReSub(EditionPattern, <<":">>, step3), LAMBDA edition :
    Then(ReSub(VolumePattern, <<>>, edition), LAMBDA step4 :
    Then(GroupIfMatch(AuthorColonPattern, step4, 1), LAMBDA step5 :
        GroupIfMatch(ByPattern, step5, 1)))))))))

\* step 7 (lines 126-137)
TakeFirstSegment(title) ==
    Bind(ReSplit(DashSplitPattern, title), LAMBDA dash_parts :
    Bind(Strip(dash_parts[1]), LAMBDA first :
    Bind(PySplit(first), LAMBDA words :
        IF Len(dash_parts) > 1 /\ Len(words) >= 2
           /\ ~(Len(words) = 2 /\ \A i \in 1..Len(words) : Capitalised(words[i]))
        THEN first
        ELSE title)))

\* step 8 (lines 140-143)
FinalCleanup(title) ==
    Then(ReSub(TrailingPunct, <<>>, title), LAMBDA trimmed :
        Strip(ReSub(LeadingPunct, <<>>, trimmed)))

BookResearcher_clean_title(raw_title) ==
    Then(TitleBeforeDashes(raw_title), LAMBDA title :
    Then(TakeFirstSegment(title), LAMBDA step7 :
        FinalCleanup(step7)))

\* ------------------------------------------------------------------------
\* The title cleaner over search-result titles: a first segment, a separator,
\* a second segment and a site suffix
\* ------------------------------------------------------------------------

\* one word, an author-like pair of words, a real title, a numbered one
TitleFirsts ==
    {<<"M", "a", "t", "i", "l", "d", "a">>,
     <<"A", "l", "l", "e", "y", SP, "C", "a", "t">>,
     <<"A", "l", "l", "e", "y", SP, "C", "a", "t", SP, "R", "a", "l", "l", "y">>,
     <<"x", ":", "1">>,
     <<"t", "h", "e", SP, "c", "a", "t">>}

\* dashes, pipe, colon and the words the cleaner looks for
TitleSeparators ==
    {<<SP, "-", SP>>,
     <<SP, "|", SP>>,
     <<SP, EnDash, SP>>,
     <<":", SP>>,
     <<SP, "b", "y", SP>>,
     <<SP, "o", "n", SP>>,
     <<"-">>}

\* what follows the separator
TitleSeconds ==
    {<<>>,
     <<"R", "o", "a", "l", "d", SP, "D", "a", "h", "l">>,
     <<"T", "r", "i", "c", "k", "a", "r", "t", "t", ",", SP, "R", "i", "c", "k", "y">>,
     <<"1">>,
     <<"T", "o", "u", "r">>}

\* site names and descriptors at the end
TitleSuffixes ==
    {<<>>,
     <<SP, "-", SP, "G", "o", "o", "d", "r", "e", "a", "d", "s">>,
     <<":", SP, "A", "m", "a", "z", "o", "n", ".", "c", "o", ".", "u", "k", ":", SP, "B", "o", "o", "k", "s">>,
     <<SP, "i", "s", SP, "a", SP, "p", "i", "c", "t", "u", "r", "e", SP, "b", "o", "o", "k">>,
     <<SP, "|", SP, "O", "f", "f", "i", "c", "i", "a", "l">>,
     <<SP, "-">>}

TitleTexts ==
    {a \o b \o c \o d :
        a \in TitleFirsts, b \in TitleSeparators, c \in TitleSeconds, d \in TitleSuffixes}

CleanTitle ==
    /\ Finish("BookResearcher._clean_title", Ret(StrV(BookResearcher_clean_title(text))))
    /\ UNCHANGED <<field_name, llm, llm_calls>>

InitTitle ==
    /\ text \in TitleTexts
    /\ patterns = TableA /\ skip_rules = NoSkip
    /\ media_count = 0
    /\ Idle

NextTitle == CleanTitle

SpecTitle == InitTitle /\ [][NextTitle]_vars

TitleCleaned == pc = "done" /\ op = "BookResearcher._clean_title"

\* C19: _clean_title is idempotent: cleaning a cleaned title changes nothing.
C19_CleanTitleIdempotent ==
    TitleCleaned => BookResearcher_clean_title(ret.val.s) = ret.val.s

\* exactly two words, each an upper-case letter followed by lower-case ones
TwoCapitalisedWords(segment) ==
    Bind(PySplit(segment), LAMBDA words :
        Len(words) = 2 /\ \A i \in 1..Len(words) : Capitalised(words[i]))
\* the first of several dash- or pipe-separated segments, unless it is two
\* capitalised words; the text itself when there is one segment only
FirstSegmentUnlessName(title) ==
    Bind(ReSplit(DashSplitPattern, title), LAMBDA segments :
        IF Len(segments) > 1 /\ ~TwoCapitalisedWords(Strip(segments[1]))
        THEN Strip(segments[1])
        ELSE title)

\* C20: when the text left after steps 0 to 6 has more than one dash- or
\* pipe-separated segment, the dash stage yields the first segment (a
\* one-word segment included) unless that segment is exactly two capitalised
\* words, and the final cleanup of that is what _clean_title returns.
C20_FirstSegmentTaken ==
    TitleCleaned =>
        /\ TakeFirstSegment(TitleBeforeDashes(text))
              = FirstSegmentUnlessName(TitleBeforeDashes(text))
        /\ ret.val.s = FinalCleanup(FirstSegmentUnlessName(TitleBeforeDashes(text)))

\* ------------------------------------------------------------------------
\* book_researcher.py: BookResearcher.search_books, and main.py: /research

\* the fields of BookSearchResult that search_books compares; author,
\* publisher, description and snippet are carried along unread
BookSearchResult(title, image_url, source_url) ==
    [title |-> title, image_url |-> image_url, source_url |-> source_url]

\* re.sub(r'[^a-z0-9]', '', title.lower())
BookResearcher_normalize_for_dedup(title) ==
    SelectSeq(StrLower(title), LAMBDA c : c \in LowerLetters \cup Digits)

\* lines 294-312: the first truthy of cse_image[0].src, cse_thumbnail[0].src
\* and metatags[0]['og:image']; each list of the pagemap holds these values
FirstOf(values, otherwise) == IF values # <<>> THEN values[1] ELSE otherwise

PagemapImage(pagemap) ==
    Bind(FirstOf(pagemap.cse_image, None), LAMBDA from_image :
        Bind(IF Truthy(from_image) THEN from_image
             ELSE FirstOf(pagemap.cse_thumbnail, from_image), LAMBDA from_thumbnail :
            IF Truthy(from_thumbnail) THEN from_thumbnail
            ELSE FirstOf(pagemap.metatags, from_thumbnail)))

\* the titles the backend gives its items
RawTitles == {<<"C", "a", "t">>, <<"c", "a", "t", "!">>, <<"D", "o", "g">>}

\* _clean_title on each of them, computed once
CleanedTitles == [raw_title \in RawTitles |-> BookResearcher_clean_title(raw_title)]

\* lines 288-326: one BookSearchResult per item of the response
ResultOfItem(item) ==
    BookSearchResult(CleanedTitles[item.title],
                     PagemapImage(item.pagemap), item.link)

\* list.index: the position of the first element equal to x
ListIndex(l, x) == SetMin({j \in 1..Len(l) : l[j] = x})

\* one iteration of the loop of lines 333-342 with the mistake of never
\* replacing a kept result
DedupStep_keepfirst(acc, result) ==
    Bind(BookResearcher_normalize_for_dedup(result.title), LAMBDA key :
        IF key \notin DOMAIN acc.seen_titles
        THEN [seen_titles |-> acc.seen_titles @@ (key :> result),
              deduped |-> Append(acc.deduped, result)]
        ELSE acc)

\* one iteration with the mistake of appending the replacement
DedupStep_append(acc, result) ==
    Bind(BookResearcher_normalize_for_dedup(result.title), LAMBDA key :
        IF key \notin DOMAIN acc.seen_titles
           \/ (Truthy(result.image_url) /\ ~Truthy(acc.seen_titles[key].image_url))
        THEN [seen_titles |-> (key :> result) @@ acc.seen_titles,
              deduped |-> Append(acc.deduped, result)]
        ELSE acc)

\* one iteration of the loop of lines 333-342
DedupStep(acc, result) ==
    Bind(BookResearcher_normalize_for_dedup(result.title), LAMBDA key :
        IF key \notin DOMAIN acc.seen_titles
        THEN [seen_titles |-> acc.seen_titles @@ (key :> result),
              deduped |-> Append(acc.deduped, result)]
        ELSE IF Truthy(result.image_url) /\ ~Truthy(acc.seen_titles[key].image_url)
        THEN [seen_titles |-> [acc.seen_titles EXCEPT ![key] = result],
              deduped |-> [acc.deduped EXCEPT
                              ![ListIndex(acc.deduped, acc.seen_titles[key])] = result]]
        ELSE acc)

RECURSIVE DedupFrom(_, _, _)
DedupFrom(results, i, acc) ==
    IF i > Len(results) THEN acc.deduped
    ELSE DedupFrom(results, i + 1, DedupStep(acc, results[i]))

\* lines 331-345
Deduplicate(results) == DedupFrom(results, 1, [seen_titles |-> <<>>, deduped |-> <<>>])

\* the class of exception search_books lets out for each thing the backend
\* does: httpx.ConnectError and the HTTPStatusError of raise_for_status are
\* httpx.HTTPError, caught at line 279; response.json() raises
\* json.JSONDecodeError, which is not
BookResearcher_search_books(is_configured, response) ==
    IF ~is_configured THEN Raise("ValueError")
    ELSE CASE response.kind = "connect_error" -> Raise("RuntimeError")
           [] response.kind = "status_error" -> Raise("RuntimeError")
           [] response.kind = "bad_body" -> Raise("JSONDecodeError")
           [] response.kind = "json" ->
                Ret(Deduplicate([i \in 1..Len(response.items) |->
                                    ResultOfItem(response.items[i])]))

\* isinstance(e, ValueError): json.JSONDecodeError derives from ValueError
IsValueError(exc) == exc \in {"ValueError", "JSONDecodeError"}

\* main.py, the handler of POST /research: its status code and its results
research(is_configured, response) ==
    Bind(BookResearcher_search_books(is_configured, response), LAMBDA found :
        IF ~found.raised THEN [status |-> 200, results |-> found.val]
        ELSE IF IsValueError(found.exc) THEN [status |-> 503, results |-> <<>>]
        ELSE [status |-> 500, results |-> <<>>])

\* ------------------------------------------------------------------------
\* Requests to the search tier

MaxItems == 3

ImageLink == StrV(<<"i">>)
ThumbnailLink == StrV(<<"t">>)

\* the src of each cse_image and cse_thumbnail and the og:image of each
\* metatags entry of an item, None where the key is missing
Pagemaps ==
    {[cse_image |-> <<>>, cse_thumbnail |-> <<>>, metatags |-> <<>>],
     [cse_image |-> <<ImageLink>>, cse_thumbnail |-> <<ThumbnailLink>>, metatags |-> <<>>],
     [cse_image |-> <<StrV(<<>>)>>, cse_thumbnail |-> <<>>, metatags |-> <<ThumbnailLink>>],
     [cse_image |-> <<StrV(<<>>)>>, cse_thumbnail |-> <<>>, metatags |-> <<None>>]}

\* the items of a response: the i-th has the link <<i>>
ItemLists ==
    UNION {{[i \in 1..n |-> [title |-> t[i], pagemap |-> p[i], link |-> <<i>>]] :
                t \in [1..n -> RawTitles], p \in [1..n -> Pagemaps]} : n \in 0..MaxItems}

Backends ==
    {[kind |-> "connect_error"], [kind |-> "status_error"], [kind |-> "bad_body"]}
    \cup {[kind |-> "json", items |-> items] : items \in ItemLists}

ParsersIdle ==
    /\ text = <<>>
    /\ media_count = 0
    /\ patterns = TableA /\ skip_rules = NoSkip
    /\ pc = "idle"
    /\ op = "none"
    /\ field_name = "none"
    /\ llm = NoLLM
    /\ ret = NotReturned
    /\ llm_calls = 0

\* an operation of a service: it leaves the parsers and the services' inputs
Serve(name, outcome) ==
    /\ pc = "idle"
    /\ pc' = "done"
    /\ op' = name
    /\ ret' = outcome
    /\ UNCHANGED parserVars

SearchBooks ==
    /\ Serve("BookResearcher.search_books", BookResearcher_search_books(configured, backend))
    /\ UNCHANGED serviceVars

Research ==
    /\ Serve("/research", Ret(research(configured, backend)))
    /\ UNCHANGED serviceVars

InitSearch ==
    /\ ParsersIdle
    /\ RouterIdle /\ BackupIdle /\ ClientIdle /\ LayoutIdle
    /\ configured \in BOOLEAN
    /\ backend \in Backends

NextSearch ==
    \/ SearchBooks
    \/ Research

SpecSearch == InitSearch /\ [][NextSearch]_vars

\* the results search_books built before it deduplicated them
BuiltResults == [i \in 1..Len(backend.items) |-> ResultOfItem(backend.items[i])]

SearchReturned ==
    /\ pc = "done"
    /\ op = "BookResearcher.search_books"
    /\ ~ret.raised

\* a title lowercased, with everything but letters and digits removed
DedupKey(title) == SelectSeq(StrLower(title), LAMBDA c : c \in Letters \cup Digits)

\* the positions of the results of the group of key
GroupOf(results, key) == {i \in 1..Len(results) : DedupKey(results[i].title) = key}

WithImage(results, group) == {i \in group : Truthy(results[i].image_url)}

\* the group's first result, or its first result with an image when the
\* first result has none and a later one has
KeptOf(results, group) ==
    IF ~Truthy(results[SetMin(group)].image_url) /\ WithImage(results, group) # {}
    THEN results[SetMin(WithImage(results, group))]
    ELSE results[SetMin(group)]

\* the number of distinct keys among the first n results
KeysUpTo(results, n) == Cardinality({DedupKey(results[i].title) : i \in 1..n})

\* C21: for every group of results with equal normalised title the output
\* holds, at the place of the group's first appearance, the first result of
\* the group, or the first one with an image when the first result has none
C21_KeptResultOfGroup ==
    SearchReturned =>
        \A i \in 1..Len(BuiltResults) :
            Bind(GroupOf(BuiltResults, DedupKey(BuiltResults[i].title)), LAMBDA group :
                /\ KeysUpTo(BuiltResults, SetMin(group)) <= Len(ret.val)
                /\ ret.val[KeysUpTo(BuiltResults, SetMin(group))] = KeptOf(BuiltResults, group))

\* a later result with an image took the place of the first of its group
C21_LaterResultReplaced ==
    /\ SearchReturned
    /\ Len(ret.val) >= 2
    /\ ret.val[1] # BuiltResults[1]
    /\ Truthy(ret.val[1].image_url)

\* C22: the output holds one result per key, the keys of the output are the
\* keys of the input, and they come in the order of their first appearance
C22_OneResultPerKey ==
    SearchReturned =>
        /\ \A a, b \in 1..Len(ret.val) :
              DedupKey(ret.val[a].title) = DedupKey(ret.val[b].title) => a = b
        /\ {DedupKey(ret.val[j].title) : j \in 1..Len(ret.val)}
             = {DedupKey(BuiltResults[i].title) : i \in 1..Len(BuiltResults)}
        /\ \A a, b \in 1..Len(ret.val) :
              a < b => SetMin(GroupOf(BuiltResults, DedupKey(ret.val[a].title)))
                         < SetMin(GroupOf(BuiltResults, DedupKey(ret.val[b].title)))

\* three results of two keys came down to two
C22_DuplicatesDropped ==
    /\ SearchReturned
    /\ Len(BuiltResults) = MaxItems
    /\ Len(ret.val) = 2
    /\ DedupKey(BuiltResults[1].title) = DedupKey(BuiltResults[3].title)
    /\ BuiltResults[1].title # BuiltResults[3].title

\* C23: /research answers 503 only when the search backend is unconfigured
\* or unreachable
C23_ConfigurationErrorOnly ==
    (pc = "done" /\ op = "/research" /\ ret.val.status = 503)
        => (~configured \/ backend.kind = "connect_error")

\* C24: with the rule table loaded, FGBParser.parse does not fail on a rule
\* whose capture group its pattern does not have
C24_ParseSurvivesConfiguration ==
    (pc = "done" /\ op = "FGBParser.parse") => ~(ret.raised /\ ret.exc = "IndexError")

\* what the backend's JSON object holds under "tags"
AnswerTags == PyGet(AIParser_parse_json_response(llm.text).val, KeyTags).val

\* C25: tags and preview_links of every record a parser tier returns are
\* lists, never None
C25_TagsAndLinksAreLists ==
    (pc = "done" /\ op \in ParserTiers /\ ~ret.raised) =>
        \A f \in ListFields : ret.val[f].t = "list"

\* the backend answered an object whose tags are null or missing, and the
\* record made from it has the empty list
C25_NullTagsBecomeEmpty ==
    /\ pc = "done" /\ op = "AIParser.parse" /\ ~UnusableAnswer
    /\ AnswerTags = None
    /\ ~ret.raised
    /\ ret.val.tags = ListV(<<>>)
    /\ ret.val.title = StrV(<<"a">>)

\* ------------------------------------------------------------------------
\* providers/router.py: ProviderRouter. generate_text and analyze_image run
\* on one event loop: a call runs alone from one await to the next, and
\* other calls run while it waits for a provider.

primary_failure_threshold == 3

\* the most calls in progress at once, and the most calls begun in all
NumTasks == 4
MaxCalls == 5

Tasks == 1..NumTasks
Waiting == [at |-> "idle", method |-> "none"]
AllProvidersUnavailable == "all_providers_unavailable"
RouterResponse(provider, error) == [provider |-> provider, error |-> error]

\* _record_primary_failure with the mistake of disabling at once
ProviderRouter_record_primary_failure_eager(failures, disabled) ==
    [failures |-> failures + 1, disabled |-> TRUE]

\* _record_primary_failure: the new _primary_failures and _primary_disabled
ProviderRouter_record_primary_failure(failures, disabled) ==
    [failures |-> failures + 1,
     disabled |-> IF failures + 1 >= primary_failure_threshold THEN TRUE ELSE disabled]

\* a call gives its response to its caller
Return(task, method, response) ==
    /\ calls' = [calls EXCEPT ![task] = Waiting]
    /\ pc' = "done"
    /\ op' = method
    /\ ret' = Ret(response)

\* lines 105-120 and 153-167: the request to the fallback starts, or the
\* call returns all_providers_unavailable
ToFallback(task, method) ==
    IF fallback_available
    THEN /\ calls' = [calls EXCEPT ![task] = [at |-> "fallback", method |-> method]]
         /\ UNCHANGED <<pc, op, ret>>
    ELSE Return(task, method, RouterResponse("none", AllProvidersUnavailable))

\* lines 91-96 and 139-144: the call begins, and the request to the primary
\* starts unless the primary is disabled or unavailable
Begin(task, method) ==
    /\ calls[task].at = "idle"
    /\ started < MaxCalls
    /\ started' = started + 1
    /\ IF ~primary_disabled /\ primary_available
       THEN /\ calls' = [calls EXCEPT ![task] = [at |-> "primary", method |-> method]]
            /\ UNCHANGED <<pc, op, ret>>
       ELSE ToFallback(task, method)
    /\ UNCHANGED <<primary_available, fallback_available, primary_failures, primary_disabled,
                   primary_log>>
    /\ UNCHANGED <<parserVars, searchVars, backupVars, clientVars, layoutVars>>

GenerateText == \E task \in Tasks : Begin(task, "generate_text")

AnalyzeImage == \E task \in Tasks : Begin(task, "analyze_image")

\* lines 98-103 and 146-151: the primary answers the request of a call
PrimaryAnswers ==
    \E task \in Tasks, succeeded \in BOOLEAN :
        /\ calls[task].at = "primary"
        /\ primary_log' = Append(primary_log, succeeded)
        /\ IF succeeded
           THEN /\ primary_failures' = 0
                /\ UNCHANGED primary_disabled
                /\ Return(task, calls[task].method, RouterResponse("primary", "none"))
           ELSE /\ primary_failures' =
                      ProviderRouter_record_primary_failure(primary_failures,
                                                            primary_disabled).failures
                /\ primary_disabled' =
                      ProviderRouter_record_primary_failure(primary_failures,
                                                            primary_disabled).disabled
                /\ ToFallback(task, calls[task].method)
        /\ UNCHANGED <<primary_available, fallback_available, started>>
        /\ UNCHANGED <<parserVars, searchVars, backupVars, clientVars, layoutVars>>

\* lines 110-112 and 158-160: the fallback answers, with or without an error
FallbackAnswers ==
    \E task \in Tasks, error \in {"none", "all_keys_exhausted"} :
        /\ calls[task].at = "fallback"
        /\ Return(task, calls[task].method, RouterResponse("fallback", error))
        /\ UNCHANGED <<primary_available, fallback_available, primary_failures,
                       primary_disabled, primary_log, started>>
        /\ UNCHANGED <<parserVars, searchVars, backupVars, clientVars, layoutVars>>

\* __init__, lines 41-47, with each provider configured or not
InitRouter ==
    /\ ParsersIdle
    /\ SearchIdle /\ BackupIdle /\ ClientIdle /\ LayoutIdle
    /\ primary_available \in BOOLEAN
    /\ fallback_available \in BOOLEAN
    /\ primary_failures = 0
    /\ primary_disabled = FALSE
    /\ calls = [task \in Tasks |-> Waiting]
    /\ primary_log = <<>>
    /\ started = 0

NextRouter ==
    \/ GenerateText
    \/ AnalyzeImage
    \/ PrimaryAnswers
    \/ FallbackAnswers

SpecRouter == InitRouter /\ [][NextRouter]_vars

\* C26: _primary_disabled is true exactly when _primary_failures has reached
\* the threshold, and _primary_failures never exceeds the threshold
C26_DisabledIffThreshold ==
    /\ primary_disabled <=> primary_failures >= primary_failure_threshold
    /\ primary_failures <= primary_failure_threshold

\* three requests to the primary in a row failed, in the order of their answers
ThreeFailuresInARow ==
    \E i \in 1..(Len(primary_log) - 2) :
        ~primary_log[i] /\ ~primary_log[i + 1] /\ ~primary_log[i + 2]

\* with the primary disabled, a step leaves it disabled, starts no request to
\* the primary, and a call that begins goes to the fallback or returns
\* all_providers_unavailable
DisabledStep ==
    primary_disabled =>
        /\ primary_disabled'
        /\ \A task \in Tasks : calls'[task].at = "primary" => calls[task].at = "primary"
        /\ started' # started =>
              \/ \E task \in Tasks : calls[task].at = "idle" /\ calls'[task].at = "fallback"
              \/ calls' = calls /\ ret'.val = RouterResponse("none", AllProvidersUnavailable)

\* C27: the primary is disabled only after three failures of the primary
\* with no success in between, and once disabled it stays disabled: every
\* later call starts no request to the primary and goes to the fallback or
\* returns all_providers_unavailable
C27_DisabledForLife ==
    /\ [](primary_disabled => ThreeFailuresInARow)
    /\ [][DisabledStep]_vars

\* with the primary disabled and configured, a call that began afterwards
\* waits for the fallback
C27_CallSkipsDisabledPrimary ==
    /\ primary_disabled
    /\ primary_available
    /\ \A task \in Tasks : calls[task].at # "primary"
    /\ \E task \in Tasks : calls[task].at = "fallback"
    /\ started > Len(primary_log)

\* ------------------------------------------------------------------------
\* providers/gemini_backup.py: GeminiBackupProvider.generate_text. The
\* request to the SDK is a blocking call: a call of generate_text runs from
\* beginning to end without another one in between.

MaxKeys == 3

\* the configured keys, each named by its number
KeyLists == {[i \in 1..n |-> i] : n \in 0..MaxKeys}
NoKey == 0

\* what the SDK does with one request: it answers with a text, answers
\* without one, raises ResourceExhausted (or an error naming 429 or quota),
\* or raises another error
SdkAnswers == {"text", "empty", "rate_limited", "error"}

\* _get_current_key: the key, and _current_key_idx and _failed_keys after it
GeminiBackupProvider_get_current_key(keys, idx, failed) ==
    Bind(SelectSeq(keys, LAMBDA k : k \notin failed), LAMBDA unfailed :
    Bind(IF unfailed = <<>> THEN keys ELSE unfailed, LAMBDA available_keys :
        [failed |-> IF unfailed = <<>> THEN {} ELSE failed,
         idx |-> IF available_keys = <<>> THEN idx ELSE idx % Len(available_keys),
         key |-> IF available_keys = <<>> THEN NoKey
                 ELSE available_keys[(idx % Len(available_keys)) + 1]]))

BackupOutcome(error, idx, failed, tried) ==
    [error |-> error, idx |-> idx, failed |-> failed, tried |-> tried]

\* the loop of lines 123-183 from the given attempt on; answers[attempt] is
\* what the SDK does with the request of that attempt, tried the keys of the
\* requests made so far
RECURSIVE GenerateFrom(_, _, _, _, _, _)
GenerateFrom(keys, answers, attempt, idx, failed, tried) ==
    IF attempt > Len(keys) THEN BackupOutcome("all_keys_exhausted", idx, failed, tried)
    ELSE Bind(GeminiBackupProvider_get_current_key(keys, idx, failed), LAMBDA cur :
        IF cur.key = NoKey
        THEN BackupOutcome("no_api_keys_available", cur.idx, cur.failed, tried)
        ELSE CASE answers[attempt] = "text" ->
                    BackupOutcome("none", cur.idx, cur.failed, Append(tried, cur.key))
               [] answers[attempt] = "empty" ->
                    GenerateFrom(keys, answers, attempt + 1, cur.idx + 1, cur.failed,
                                 Append(tried, cur.key))
               [] answers[attempt] = "rate_limited" ->
                    GenerateFrom(keys, answers, attempt + 1, cur.idx + 1,
                                 cur.failed \cup {cur.key}, Append(tried, cur.key))
               [] answers[attempt] = "error" ->
                    BackupOutcome("gemini_error", cur.idx, cur.failed,
                                  Append(tried, cur.key)))

GeminiBackupProvider_generate_text(keys, answers, idx, failed) ==
    GenerateFrom(keys, answers, 1, idx, failed, <<>>)

BackupGenerateText ==
    \E answers \in [1..Len(api_keys) -> SdkAnswers] :
        Bind(GeminiBackupProvider_generate_text(api_keys, answers, current_key_idx,
                                                failed_keys), LAMBDA outcome :
            /\ current_key_idx' = outcome.idx
            /\ failed_keys' = outcome.failed
            /\ pc' = "done"
            /\ op' = "GeminiBackupProvider.generate_text"
            /\ ret' = Ret([error |-> outcome.error, tried |-> outcome.tried])
            /\ UNCHANGED api_keys
            /\ UNCHANGED <<parserVars, searchVars, routerVars, clientVars, layoutVars>>)

\* __init__, lines 53-55
InitBackup ==
    /\ ParsersIdle
    /\ SearchIdle /\ RouterIdle /\ ClientIdle /\ LayoutIdle
    /\ api_keys \in KeyLists
    /\ current_key_idx = 0
    /\ failed_keys = {}

NextBackup == BackupGenerateText

SpecBackup == InitBackup /\ [][NextBackup]_vars

\* C28: the requests of one call use pairwise distinct keys, and a call that
\* returns all_keys_exhausted has made a request with every configured key
C28_DistinctKeysPerCall ==
    (pc = "done" /\ op = "GeminiBackupProvider.generate_text") =>
        /\ \A i, j \in 1..Len(ret.val.tried) :
              ret.val.tried[i] = ret.val.tried[j] => i = j
        /\ ret.val.error = "all_keys_exhausted" =>
              {ret.val.tried[i] : i \in 1..Len(ret.val.tried)}
                 = {api_keys[i] : i \in 1..Len(api_keys)}

\* ------------------------------------------------------------------------
\* gemini_client.py: GeminiClient.generate_review. The request to the SDK
\* is a blocking call: a call of generate_review runs from beginning to end
\* without another one in between.

AVAILABLE_MODELS == <<"gemini-2.5-flash", "gemini-2.5-flash-lite", "gemini-2.0-flash">>

KeySuffixLen == 6

\* two keys that end alike and a short one
KeyA == <<"a", "1", "2", "3", "4", "5", "6">>
KeyB == <<"b", "1", "2", "3", "4", "5", "6">>
KeyC == <<"c", "9">>
ClientKeys == {KeyA, KeyB, KeyC}

\* the non-empty lists of one or two different keys
ClientKeyLists ==
    {<<k>> : k \in ClientKeys}
        \cup ({<<k, l>> : k, l \in ClientKeys} \ {<<k, k>> : k \in ClientKeys})

\* api_key[-6:] if len(api_key) > 6 else api_key
KeySuffix(api_key) ==
    IF Len(api_key) > KeySuffixLen
    THEN SubSeq(api_key, Len(api_key) - KeySuffixLen + 1, Len(api_key))
    ELSE api_key

\* f"{model_name}:{key_suffix}"
ComboId(model_name, api_key) == <<model_name, ":">> \o KeySuffix(api_key)

\* what the SDK does with one request
ReviewAnswers == {"text", "empty", "rate_limited", "quota_error", "not_found", "error"}

\* what the loop does with it: return (lines 301-338), add the combination
\* to _failed_combos and go on (lines 340-361), or only go on (lines 295-299
\* and 362-364)
AnswerEffect(answer) ==
    CASE answer = "text" -> "return"
      [] answer \in {"rate_limited", "quota_error", "not_found"} -> "record"
      [] answer \in {"empty", "error"} -> "continue"

\* the combinations in the order of the loops of lines 270 and 274
NumCombos(keys) == Len(keys) * Len(AVAILABLE_MODELS)
KeyIdx(position) == ((position - 1) \div Len(AVAILABLE_MODELS)) + 1
ModelIdx(position) == ((position - 1) % Len(AVAILABLE_MODELS)) + 1
ComboAt(keys, position) == ComboId(AVAILABLE_MODELS[ModelIdx(position)], keys[KeyIdx(position)])

ReviewOutcome(raised, failed, requested, marked) ==
    [raised |-> raised, failed |-> failed, requested |-> requested, marked |-> marked]

\* every way the loops of lines 270-364 can go from the given combination
\* on: requested are the positions of the requests made so far, marked the
\* positions added to _failed_combos
RECURSIVE ReviewOutcomes(_, _, _, _, _)
ReviewOutcomes(keys, position, failed, requested, marked) ==
    IF position > NumCombos(keys) THEN {ReviewOutcome(TRUE, failed, requested, marked)}
    ELSE IF ComboAt(keys, position) \in failed
    THEN ReviewOutcomes(keys, position + 1, failed, requested, marked)
    ELSE UNION {
        CASE effect = "return" ->
                {ReviewOutcome(FALSE, failed, Append(requested, position), marked)}
          [] effect = "record" ->
                ReviewOutcomes(keys, position + 1, failed \cup {ComboAt(keys, position)},
                               Append(requested, position), marked \cup {position})
          [] effect = "continue" ->
                ReviewOutcomes(keys, position + 1, failed, Append(requested, position),
                               marked)
        : effect \in {AnswerEffect(answer) : answer \in ReviewAnswers}}

GeminiClient_generate_review(keys, failed) == ReviewOutcomes(keys, 1, failed, <<>>, {})

GenerateReview ==
    \E outcome \in GeminiClient_generate_review(client_api_keys, failed_combos) :
        /\ failed_combos' = outcome.failed
        /\ recorded' = recorded \cup
              {<<client_api_keys[KeyIdx(p)], AVAILABLE_MODELS[ModelIdx(p)]>> :
                  p \in outcome.marked}
        /\ pc' = "done"
        /\ op' = "GeminiClient.generate_review"
        /\ ret' = IF outcome.raised
                  THEN [raised |-> TRUE, exc |-> "Exception", requested |-> outcome.requested]
                  ELSE [raised |-> FALSE, val |-> None, requested |-> outcome.requested]
        /\ UNCHANGED client_api_keys
        /\ UNCHANGED <<parserVars, searchVars, routerVars, backupVars, layoutVars>>

\* __init__, lines 89-105
InitClient ==
    /\ ParsersIdle
    /\ SearchIdle /\ RouterIdle /\ BackupIdle /\ LayoutIdle
    /\ client_api_keys \in ClientKeyLists
    /\ failed_combos = {}
    /\ recorded = {}

NextClient == GenerateReview

SpecClient == InitClient /\ [][NextClient]_vars

ReviewCalled == pc = "done" /\ op = "GeminiClient.generate_review"

\* the positions the last call passed: all of them when it raised, those up
\* to its last request when it returned
PassedPositions ==
    IF ret.raised THEN 1..NumCombos(client_api_keys)
    ELSE 1..ret.requested[Len(ret.requested)]

\* the requests of the last call were made in key-major order, and it
\* returned at its first success
KeyMajorOrder ==
    \A i, j \in 1..Len(ret.requested) : i < j => ret.requested[i] < ret.requested[j]

\* a combination the last call passed without a request was recorded for
\* that very key and model
SkippedForOwnFailure ==
    \A p \in PassedPositions :
        (\A i \in 1..Len(ret.requested) : ret.requested[i] # p)
            => <<client_api_keys[KeyIdx(p)], AVAILABLE_MODELS[ModelIdx(p)]>> \in recorded

\* a call requests no combination of _failed_combos, the set only grows, and
\* with every combination in it a call raises without a request
FailedCombosStep ==
    /\ failed_combos \subseteq failed_combos'
    /\ \A i \in 1..Len(ret'.requested) :
          ComboAt(client_api_keys, ret'.requested[i]) \notin failed_combos
    /\ (\A p \in 1..NumCombos(client_api_keys) : ComboAt(client_api_keys, p) \in failed_combos)
          => (ret'.raised /\ ret'.requested = <<>>)

\* C29: generate_review tries the combinations in key-major order and
\* returns on the first success; a recorded combination is never requested
\* again, the set only grows, with every combination recorded a call raises
\* without a request, and a failure recorded for one key never makes the
\* client skip a combination of another key
C29_FailedCombosPerKey ==
    /\ [](ReviewCalled => (KeyMajorOrder /\ SkippedForOwnFailure))
    /\ [][FailedCombosStep]_vars

\* ------------------------------------------------------------------------
\* poster/layout.py: LayoutEngine with its default padding, title height
\* ratio and cover aspect ratio (1.0). The floats of the source are exact
\* fractions here.

MaxCovers == 7

LayoutPadding == 20
\* title_height_ratio is 0.12, TitlePercent hundredths
TitlePercent == 12

Canvases ==
    {[width |-> 1080, height |-> 1920], [width |-> 1080, height |-> 1080],
     [width |-> 1920, height |-> 1080], [width |-> 1080, height |-> 1350],
     [width |-> 3000, height |-> 1000], [width |-> 600, height |-> 400]}

Abs(i) == IF i < 0 THEN -i ELSE i
\* int(a / b) for b > 0: the quotient rounded towards zero
IntDiv(a, b) == IF a >= 0 THEN a \div b ELSE -((-a) \div b)

\* a fraction n / d with d > 0
Frac(n, d) == [n |-> n, d |-> d]
FracGreater(a, b) == a.n * b.d > b.n * a.d
\* a / b > 1 for fractions a and b, b not zero
RatioAboveOne(a, b) ==
    IF b.n > 0 THEN a.n * b.d > b.n * a.d ELSE a.n * b.d < b.n * a.d

RECURSIVE SeqSum(_)
SeqSum(s) == IF s = <<>> THEN 0 ELSE s[1] + SeqSum(Tail(s))
SeqMax(s) == CHOOSE m \in {s[i] : i \in 1..Len(s)} : \A i \in 1..Len(s) : s[i] <= m

\* lines 127-143: the covers spread over num_rows rows, the first rows one
\* longer, empty rows left out
EvenRows(count, num_rows) ==
    SelectSeq([r \in 1..num_rows |->
                  IF r <= count % num_rows THEN (count \div num_rows) + 1
                  ELSE count \div num_rows],
              LAMBDA c : c > 0)

\* lines 149-165 for one row configuration: the side of the cover, whose
\* square is cover_size; zero_division when cover_height is 0
CoverSide(cols_per_row, size) ==
    Bind(Frac(size.width - (SeqMax(cols_per_row) + 1) * LayoutPadding, SeqMax(cols_per_row)),
         LAMBDA cover_width :
    Bind(Frac((100 - TitlePercent) * size.height
                 - 100 * (Len(cols_per_row) + 1) * LayoutPadding,
              100 * Len(cols_per_row)),
         LAMBDA cover_height :
        IF cover_height.n = 0 THEN [zero_division |-> TRUE]
        ELSE [zero_division |-> FALSE,
              side |-> IF RatioAboveOne(cover_width, cover_height)
                       THEN cover_height ELSE cover_width]))

\* the loop of lines 126-169 from num_rows on
RECURSIVE BestConfig(_, _, _, _, _)
BestConfig(count, size, num_rows, best_config, best_side) ==
    IF num_rows > count
    THEN Ret(IF best_config = <<>> THEN <<1, <<count>>>> ELSE best_config)
    ELSE Bind(EvenRows(count, num_rows), LAMBDA cols_per_row :
         Bind(CoverSide(cols_per_row, size), LAMBDA cover :
            IF cover.zero_division THEN Raise("ZeroDivisionError")
            ELSE IF FracGreater(Frac(Abs(cover.side.n), cover.side.d), best_side)
            THEN BestConfig(count, size, num_rows + 1,
                            <<Len(cols_per_row), cols_per_row>>,
                            Frac(Abs(cover.side.n), cover.side.d))
            ELSE BestConfig(count, size, num_rows + 1, best_config, best_side)))

\* calculate_grid_config without custom_rows: <<num_rows, cols_per_row>>
LayoutEngine_calculate_grid_config(count, size) ==
    IF size.height = 0 THEN Raise("ZeroDivisionError")
    ELSE CASE count = 1 -> Ret(<<1, <<1>>>>)
           [] count = 2 ->
                Ret(<<1, IF 2 * size.width >= 3 * size.height THEN <<2>> ELSE <<1, 1>>>>)
           [] count = 3 -> Ret(<<1, <<3>>>>)
           [] count = 4 -> Ret(<<2, <<2, 2>>>>)
           [] OTHER -> BestConfig(count, size, 1, <<>>, Frac(0, 1))

\* lines 225-240: the row and column of each cover placed
PlacedCovers(cols_per_row) ==
    {rc \in (0..(Len(cols_per_row) - 1)) \X (0..(SeqMax(cols_per_row) - 1)) :
        rc[2] < cols_per_row[rc[1] + 1]}

\* calculate_layout with include_title: the rows, the cover size and the
\* covers placed
LayoutEngine_calculate_layout(count, size) ==
    Bind(LayoutEngine_calculate_grid_config(count, size), LAMBDA config :
        IF config.raised THEN config
        ELSE Bind(config.val[1], LAMBDA num_rows :
             Bind(config.val[2], LAMBDA cols_per_row :
             Bind(IntDiv(size.width - (SeqMax(cols_per_row) + 1) * LayoutPadding,
                         SeqMax(cols_per_row)), LAMBDA cover_width :
             Bind(IntDiv(size.height - ((size.height * TitlePercent) \div 100)
                            - (num_rows + 1) * LayoutPadding, num_rows),
                  LAMBDA cover_height :
                IF cover_height = 0 THEN Raise("ZeroDivisionError")
                ELSE Ret([rows |-> num_rows,
                          cols_per_row |-> cols_per_row,
                          cover_width |-> IF RatioAboveOne(Frac(cover_width, 1),
                                                           Frac(cover_height, 1))
                                          THEN cover_height ELSE cover_width,
                          cover_height |-> IF RatioAboveOne(Frac(cover_width, 1),
                                                            Frac(cover_height, 1))
                                           THEN cover_height ELSE cover_width,
                          cover_specs |-> PlacedCovers(cols_per_row)]))))))

CalculateGridConfig ==
    /\ Serve("LayoutEngine.calculate_grid_config",
             LayoutEngine_calculate_grid_config(cover_count, canvas))
    /\ UNCHANGED serviceVars

CalculateLayout ==
    /\ Serve("LayoutEngine.calculate_layout", LayoutEngine_calculate_layout(cover_count, canvas))
    /\ UNCHANGED serviceVars

InitLayout ==
    /\ ParsersIdle
    /\ SearchIdle /\ RouterIdle /\ BackupIdle /\ ClientIdle
    /\ cover_count \in 1..MaxCovers
    /\ canvas \in Canvases

NextLayout ==
    \/ CalculateGridConfig
    \/ CalculateLayout

SpecLayout == InitLayout /\ [][NextLayout]_vars

\* C30: calculate_grid_config returns num_rows = len(cols_per_row) with
\* every entry at least 1 and the entries summing to cover_count, and
\* calculate_layout places cover_count covers in num_rows rows
C30_GridHoldsEveryCover ==
    /\ (pc = "done" /\ op = "LayoutEngine.calculate_grid_config") =>
          /\ ~ret.raised
          /\ ret.val[1] = Len(ret.val[2])
          /\ \A i \in 1..Len(ret.val[2]) : ret.val[2][i] >= 1
          /\ SeqSum(ret.val[2]) = cover_count
    /\ (pc = "done" /\ op = "LayoutEngine.calculate_layout") =>
          /\ ~ret.raised
          /\ Cardinality(ret.val.cover_specs) = cover_count
          /\ {rc[1] : rc \in ret.val.cover_specs} = 0..(ret.val.rows - 1)

====
